---------------------------- MODULE Spec2Model ----------------------------
(***************************************************************************)
(* Timonel TWI bootloader (timonel-bootloader/timonel.c): the polled main  *)
(* loop, the USI overflow/start handlers, the command handlers and the     *)
(* self-programming (SPM) calls they make.                                 *)
(*                                                                         *)
(* One action is one iteration of main's for(;;) loop: the iteration in    *)
(* which the loop finds a START flag, an overflow flag, or neither.  The   *)
(* bus master and the USI shift register are the environment: they decide  *)
(* which flag the next iteration finds and what USIDR holds.               *)
(*                                                                         *)
(* The build configuration (timonel.h, tml-config.h, Makefile.inc) is not  *)
(* part of the sources at hand; the configuration values below are one     *)
(* admissible configuration, with a small page geometry.                   *)
(***************************************************************************)
EXTENDS Integers, Sequences, FiniteSets, TLC

(***************************************************************************)
(* Build configuration                                                     *)
(***************************************************************************)
SPM_PAGESIZE == 8
MST_PACKET_SIZE == 4
TIMONEL_START == 32
RESET_PAGE == 0
TWI_ADDR == 11
TWI_RX_BUFFER_SIZE == 16
TWI_TX_BUFFER_SIZE == 16
TWI_RX_BUFFER_MASK == TWI_RX_BUFFER_SIZE - 1
TWI_TX_BUFFER_MASK == TWI_TX_BUFFER_SIZE - 1
TIMONEL_VER_MJR == 1
TIMONEL_VER_MNR == 4
SHORT_LED_DLY == 1
SHORT_EXIT_DLY == 1
FLASH_SIZE == 48

\* Feature toggles (#if ...) of the build: a record chosen once, at start-up.
DefaultCfg ==
    [AUTO_PAGE_ADDR |-> TRUE, CMD_SETPGADDR |-> TRUE, APP_USE_TPL_PG |-> FALSE,
     CHECK_PAGE_IX |-> FALSE, FORCE_ERASE_PG |-> FALSE, TWO_STEP_INIT |-> FALSE,
     CMD_READFLASH |-> FALSE, TIMEOUT_EXIT |-> TRUE]

\* Bits of MemPack.flags.
FL_INIT_1 == 0
FL_INIT_2 == 1
FL_DEL_FLASH == 2
FL_EXIT_TML == 3

\* Command opcodes and their acknowledge codes.
INITSOFT == 129
ACKINITS == 126
GETTMNLV == 130
ACKTMNLV == 125
DELFLASH == 131
ACKDELFL == 124
STPGADDR == 132
AKPGADDR == 123
WRITPAGE == 133
ACKWTPAG == 122
EXITTMNL == 134
ACKEXITT == 121
READFLSH == 135
ACKRDFSH == 120
ID_CHAR_3 == 84
TML_FEATURES == 0
TML_EXT_FEATURES == 0
LOW_FUSE == 98
OSCCAL_VALUE == 0

GETTMNLV_RPLYLN == 12
STPGADDR_RPLYLN == 2
WRITPAGE_RPLYLN == 2

(***************************************************************************)
(* Model bounds                                                            *)
(***************************************************************************)
\* The master's moves in one behaviour: the command frames it sends, plus the
\* read transactions in which it reads fewer or more bytes than the reply has.
MaxCmds == 5

\* The largest bootloader start, in pages, the erase loop is run for.
MaxErasePages == 15

\* The calls made to the stand-alone driver in one behaviour: enough to fill
\* a ring of TWI_TX_BUFFER_SIZE places and to call it again.
MaxDriverCalls == 18

\* How far around each boundary value the trampoline inputs are taken.
TplSpan == 2

(***************************************************************************)
(* Fixed-width arithmetic                                                  *)
(***************************************************************************)
U8(x) == x % 256
U16(x) == x % 65536

RECURSIVE BitAndN(_, _, _)
BitAndN(a, b, n) ==
    IF n = 0 \/ a = 0 \/ b = 0 THEN 0
    ELSE ((a % 2) * (b % 2)) + 2 * BitAndN(a \div 2, b \div 2, n - 1)

RECURSIVE BitOrN(_, _, _)
BitOrN(a, b, n) ==
    IF n = 0 \/ (a = 0 /\ b = 0) THEN 0
    ELSE (IF (a % 2) + (b % 2) > 0 THEN 1 ELSE 0) + 2 * BitOrN(a \div 2, b \div 2, n - 1)

And16(a, b) == BitAndN(a, b, 16)
Or16(a, b) == BitOrN(a, b, 16)
Not16(a) == 65535 - a
Shl8(a) == U16(a * 256)

TestBit(x, b) == (x \div (2 ^ b)) % 2 = 1
SetBit(x, b) == IF TestBit(x, b) THEN x ELSE x + 2 ^ b

ERASED_WORD == 65535

(***************************************************************************)
(* State                                                                   *)
(***************************************************************************)
VARIABLES
    cfg,        \* the build's feature toggles
    twi,        \* driver globals: rx/tx rings, device_state, command[]
    mem_pack,   \* MemPack: page_addr, page_ix, flags, app_reset_lsb/msb
    usi,        \* USI registers: USIDR, USICR enables, USISR counter, SDA direction
    spm,        \* flash and the SPM temporary page buffer
    main,       \* main's locals and where execution is
    obs,        \* platform calls made by the latest loop iteration
    master,     \* the bus master: the frame being written, frames sent
    probe       \* inputs and result of a stand-alone computation

vars == <<cfg, twi, mem_pack, usi, spm, main, obs, master, probe>>

PageWords == SPM_PAGESIZE \div 2
NumPages == FLASH_SIZE \div SPM_PAGESIZE
ClearedPage == [i \in 1..PageWords |-> ERASED_WORD]

\* The running program's state gathered in one record, so that the steps of
\* one loop iteration compose.
Cur ==
    [cfg |-> cfg, twi |-> twi, mp |-> mem_pack, usi |-> usi, spm |-> spm,
     main |-> main, obs |-> obs]

Hung(s) == s.main.pc = "hang"

(***************************************************************************)
(* SPM primitives (avr/boot.h) on the flash and its temporary page buffer  *)
(***************************************************************************)
LogOp(s, op, addr, data) ==
    [s EXCEPT !.obs.ops = Append(@, [op |-> op, addr |-> addr, data |-> data,
                                     in_handler |-> s.obs.in_handler,
                                     soe |-> s.main.slow_ops_enabled,
                                     filled |-> s.spm.filled])]

PageOf(addr) == ((addr % FLASH_SIZE) \div SPM_PAGESIZE) + 1
WordOf(addr) == ((addr \div 2) % PageWords) + 1

\* The base of the flash page that holds a byte address.
PageBase(addr) == addr - (addr % SPM_PAGESIZE)

\* spm.filled: the pages the words now in the temporary buffer were filled for.
boot_page_fill(s, addr, word) ==
    LogOp([s EXCEPT !.spm.page_buf[WordOf(addr)] = word,
                    !.spm.filled = @ \cup {PageBase(addr)}],
          "fill", addr, <<word>>)

boot_page_erase(s, addr) ==
    LogOp([s EXCEPT !.spm.flash[PageOf(addr)] = ClearedPage], "erase", addr, <<>>)

boot_page_write(s, addr) ==
    [LogOp(s, "write", addr, s.spm.page_buf) EXCEPT
        !.spm.flash[PageOf(addr)] = s.spm.page_buf,
        !.spm.page_buf = ClearedPage, !.spm.filled = {}]

FlashByte(s, addr) ==
    LET w == s.spm.flash[PageOf(addr)][WordOf(addr)]
    IN  IF addr % 2 = 0 THEN w % 256 ELSE w \div 256

(***************************************************************************)
(* USI register configurations                                             *)
(***************************************************************************)
SET_USI_SDA_AS_OUTPUT(s) == [s EXCEPT !.usi.sda_out = TRUE]
SET_USI_SDA_AS_INPUT(s) == [s EXCEPT !.usi.sda_out = FALSE]

SET_USI_TO_DETECT_TWI_START(s) ==
    [s EXCEPT !.usi.start_int = TRUE, !.usi.ovf_int = FALSE, !.usi.scl_hold = FALSE]

SET_USI_TO_DETECT_TWI_RESTART(s) ==
    [s EXCEPT !.usi.start_int = TRUE, !.usi.ovf_int = TRUE, !.usi.scl_hold = TRUE]

SET_USI_TO_SHIFT_8_ADDRESS_BITS(s) ==
    [s EXCEPT !.usi.start_flag = FALSE, !.usi.ovf_flag = FALSE,
              !.usi.stop_flag = FALSE, !.usi.coll_flag = FALSE, !.usi.bits = 8]

SET_USI_TO_SHIFT_8_DATA_BITS(s) ==
    [s EXCEPT !.usi.ovf_flag = FALSE, !.usi.stop_flag = FALSE,
              !.usi.coll_flag = FALSE, !.usi.bits = 8]

SET_USI_TO_SHIFT_1_ACK_BIT(s) ==
    [s EXCEPT !.usi.ovf_flag = FALSE, !.usi.stop_flag = FALSE,
              !.usi.coll_flag = FALSE, !.usi.bits = 1]

SET_USI_TO_WAIT_FOR_TWI_ADDRESS(s) ==
    SET_USI_TO_SHIFT_8_DATA_BITS(SET_USI_TO_DETECT_TWI_START(s))

SET_USI_TO_SEND_BYTE(s) ==
    SET_USI_TO_SHIFT_8_DATA_BITS(SET_USI_SDA_AS_OUTPUT(s))

SET_USI_TO_RECEIVE_BYTE(s) ==
    SET_USI_TO_SHIFT_8_DATA_BITS(SET_USI_SDA_AS_INPUT(s))

SET_USI_TO_SEND_ACK(s) ==
    SET_USI_TO_SHIFT_1_ACK_BIT(SET_USI_SDA_AS_OUTPUT([s EXCEPT !.usi.USIDR = 0]))

SET_USI_TO_RECEIVE_ACK(s) ==
    SET_USI_TO_SHIFT_1_ACK_BIT(SET_USI_SDA_AS_INPUT([s EXCEPT !.usi.USIDR = 0]))

(***************************************************************************)
(* USI TWI byte transmission                                               *)
(***************************************************************************)
\* Variant: the byte stored at the old head, before tx_head is advanced.
UsiTwiTransmitByte_storesFirst(s, data_byte) ==
    LET h == And16(s.twi.tx_head + 1, TWI_TX_BUFFER_MASK)
    IN  IF h = s.twi.tx_tail
        THEN [s EXCEPT !.twi.tx_head = h, !.main.pc = "hang"]
        ELSE [s EXCEPT !.twi.tx_head = h, !.twi.tx_buffer[s.twi.tx_head] = data_byte]

\* The wait loop spins for ever when the ring is full: nothing else runs
\* that could move tx_tail.
UsiTwiTransmitByte(s, data_byte) ==
    LET h == And16(s.twi.tx_head + 1, TWI_TX_BUFFER_MASK)
    IN  IF h = s.twi.tx_tail
        THEN [s EXCEPT !.twi.tx_head = h, !.main.pc = "hang"]
        ELSE [s EXCEPT !.twi.tx_head = h, !.twi.tx_buffer[h] = data_byte]

\* for (i = 0; i < len; i++) UsiTwiTransmitByte(reply[i]);
RECURSIVE TransmitReply(_, _)
TransmitReply(s, reply) ==
    IF reply = <<>> \/ Hung(s) THEN s
    ELSE TransmitReply(UsiTwiTransmitByte(s, Head(reply)), Tail(reply))

(***************************************************************************)
(* Command handlers                                                        *)
(***************************************************************************)
Cmd(s, i) == s.twi.command[i]

SetFlag(s, b) == [s EXCEPT !.mp.flags = SetBit(@, b)]

\* Variant: the two bytes of the bootloader start address exchanged.
Reply_GETTMNLV_swappedStart(s) ==
    LET reply == <<ACKTMNLV, ID_CHAR_3, TIMONEL_VER_MJR, TIMONEL_VER_MNR,
                   TML_FEATURES, TML_EXT_FEATURES,
                   And16(TIMONEL_START, 255), And16(TIMONEL_START, 65280) \div 256,
                   FlashByte(s, TIMONEL_START - 1), FlashByte(s, TIMONEL_START - 2),
                   LOW_FUSE, OSCCAL_VALUE>>
    IN  TransmitReply(SetFlag(s, FL_INIT_1), reply)

Reply_GETTMNLV(s) ==
    LET reply == <<ACKTMNLV, ID_CHAR_3, TIMONEL_VER_MJR, TIMONEL_VER_MNR,
                   TML_FEATURES, TML_EXT_FEATURES,
                   And16(TIMONEL_START, 65280) \div 256, And16(TIMONEL_START, 255),
                   FlashByte(s, TIMONEL_START - 1), FlashByte(s, TIMONEL_START - 2),
                   LOW_FUSE, OSCCAL_VALUE>>
    IN  TransmitReply(SetFlag(s, FL_INIT_1), reply)

\* A statement that follows a transmit: it runs if the transmit returned.
SetFlagOnReturn(s, b) == IF Hung(s) THEN s ELSE SetFlag(s, b)

\* Variant: the handler sets the deletion flag instead of the exit flag.
Reply_EXITTMNL_wrongFlag(s) ==
    SetFlagOnReturn(UsiTwiTransmitByte(s, ACKEXITT), FL_DEL_FLASH)

Reply_EXITTMNL(s) == SetFlagOnReturn(UsiTwiTransmitByte(s, ACKEXITT), FL_EXIT_TML)

Reply_DELFLASH(s) == SetFlagOnReturn(UsiTwiTransmitByte(s, ACKDELFL), FL_DEL_FLASH)

\* Variant: the address stored as received, not reduced to a page base.
Reply_STPGADDR_unmasked(s) ==
    LET addr == U16(Shl8(Cmd(s, 1)) + Cmd(s, 2))
        s1 == [s EXCEPT !.mp.page_addr = addr]
    IN  TransmitReply(s1, <<AKPGADDR, U8(Cmd(s, 1) + Cmd(s, 2))>>)

Reply_STPGADDR(s) ==
    LET addr == U16(Shl8(Cmd(s, 1)) + Cmd(s, 2))
        s1 == [s EXCEPT !.mp.page_addr = And16(addr, Not16(SPM_PAGESIZE - 1))]
    IN  TransmitReply(s1, <<AKPGADDR, U8(Cmd(s, 1) + Cmd(s, 2))>>)

Reply_INITSOFT(s) ==
    UsiTwiTransmitByte(SetFlag(s, FL_INIT_2), ACKINITS)

\* The jump to the bootloader placed in the reset vector.
ResetJumpWord == 49152 + ((TIMONEL_START \div 2) - 1)

\* for (i = i0; i < MST_PACKET_SIZE + 1; i += 2) { fill; checksum; page_ix += 2 }
RECURSIVE WritFillLoop(_, _, _)
WritFillLoop(s, i, sum) ==
    IF ~(i < MST_PACKET_SIZE + 1) THEN [s |-> s, sum |-> sum]
    ELSE LET word == Or16(Shl8(Cmd(s, i + 1)), Cmd(s, i))
             s1 == boot_page_fill(s, U16(s.mp.page_addr + s.mp.page_ix), word)
         IN  WritFillLoop([s1 EXCEPT !.mp.page_ix = U8(@ + 2)], i + 2,
                          U8(sum + U8(Cmd(s, i + 1) + Cmd(s, i))))

\* Variant: the reset-page branch is never taken.
WritTargetsResetVector_never(s) == FALSE

\* if ((page_addr + page_ix) == RESET_PAGE)
WritTargetsResetVector(s) == U16(s.mp.page_addr + s.mp.page_ix) = RESET_PAGE

\* Variant: the two bytes of the application's reset vector saved swapped.
WritResetBranch_swapped(s) ==
    LET s1 == [s EXCEPT !.mp.app_reset_lsb = Cmd(s, 2), !.mp.app_reset_msb = Cmd(s, 1)]
        s2 == boot_page_fill(s1, RESET_PAGE, ResetJumpWord)
        s3 == [s2 EXCEPT !.mp.page_ix = U8(@ + 2)]
    IN  WritFillLoop(s3, 3, U8(Cmd(s, 2) + Cmd(s, 1)))

\* Variant: the host's first word is filled as the reset vector.
WritResetBranch_hostVector(s) ==
    LET s1 == IF s.cfg.AUTO_PAGE_ADDR
              THEN [s EXCEPT !.mp.app_reset_lsb = Cmd(s, 1),
                             !.mp.app_reset_msb = Cmd(s, 2)]
              ELSE s
        s2 == boot_page_fill(s1, RESET_PAGE, Or16(Shl8(Cmd(s, 2)), Cmd(s, 1)))
        s3 == [s2 EXCEPT !.mp.page_ix = U8(@ + 2)]
    IN  WritFillLoop(s3, 3, U8(Cmd(s, 2) + Cmd(s, 1)))

\* The reset-page branch: keep the application's reset vector, fill ours.
WritResetBranch(s) ==
    LET s1 == IF s.cfg.AUTO_PAGE_ADDR
              THEN [s EXCEPT !.mp.app_reset_lsb = Cmd(s, 1),
                             !.mp.app_reset_msb = Cmd(s, 2)]
              ELSE s
        s2 == boot_page_fill(s1, RESET_PAGE, ResetJumpWord)
        s3 == [s2 EXCEPT !.mp.page_ix = U8(@ + 2)]
    IN  WritFillLoop(s3, 3, U8(Cmd(s, 2) + Cmd(s, 1)))

\* Variant: no frame is ever rejected.
WritRejected_never(s, sum) == FALSE

\* The test that decides the safety deletion of the payload.
WritRejected(s, sum) ==
    IF s.cfg.CHECK_PAGE_IX
    THEN (sum # Cmd(s, MST_PACKET_SIZE + 1)) \/ (s.mp.page_ix > SPM_PAGESIZE)
    ELSE sum # Cmd(s, MST_PACKET_SIZE + 1)

\* if (rejected) { flags |= (1 << FL_DEL_FLASH); reply[1] = 0; }  transmit reply
WritReply(s, sum, bad) ==
    TransmitReply(IF bad THEN SetFlag(s, FL_DEL_FLASH) ELSE s,
                  <<ACKWTPAG, IF bad THEN 0 ELSE sum>>)

\* The handler once the frame's words are in the page buffer.
WritCheck(r) == WritReply(r.s, r.sum, WritRejected(r.s, r.sum))

Reply_WRITPAGE(s) ==
    WritCheck(IF WritTargetsResetVector(s) THEN WritResetBranch(s)
              ELSE WritFillLoop(s, 1, 0))

\* for (i = 1; i < command[3] + 1; i++) { reply[i] = *(mem_position++); ... }
\* The flash bytes the reply carries, first to last.
ReadFlashData(s) ==
    [i \in 1..Cmd(s, 3) |-> FlashByte(s, U16(Shl8(Cmd(s, 1)) + Cmd(s, 2) + (i - 1)))]

\* reply[reply_len - 1] += (uint8_t)(reply[i]): the running 8-bit sum.
RECURSIVE ReadFlashSum(_)
ReadFlashSum(q) == IF q = <<>> THEN 0 ELSE U8(Head(q) + ReadFlashSum(Tail(q)))

\* reply[reply_len - 1]: the data bytes, then the two address bytes, summed.
ReadFlashChecksum(s) ==
    U8(ReadFlashSum(ReadFlashData(s)) + Cmd(s, 1) + Cmd(s, 2))

\* const uint8_t reply_len = (command[3] + 2);  uint8_t reply[reply_len];
\* A length of 254 makes reply_len 0, and a length of 255 makes it 1 while
\* the fill loop (a uint8_t i compared with 256) never ends: reply[] is then
\* written outside its bounds, which is undefined.
Reply_READFLSH(s) ==
    IF U8(Cmd(s, 3) + 2) < 2 THEN [s EXCEPT !.main.pc = "undefined"]
    ELSE TransmitReply(s, <<ACKRDFSH>> \o ReadFlashData(s) \o <<ReadFlashChecksum(s)>>)

ReceiveEvent(s) ==
    LET op == Cmd(s, 0)
    IN  CASE op = GETTMNLV -> Reply_GETTMNLV(s)
          [] op = EXITTMNL -> Reply_EXITTMNL(s)
          [] op = DELFLASH -> Reply_DELFLASH(s)
          [] op = STPGADDR /\ (s.cfg.CMD_SETPGADDR \/ ~s.cfg.AUTO_PAGE_ADDR)
                           -> Reply_STPGADDR(s)
          [] op = WRITPAGE -> Reply_WRITPAGE(s)
          [] op = READFLSH /\ s.cfg.CMD_READFLASH -> Reply_READFLSH(s)
          [] op = INITSOFT /\ s.cfg.TWO_STEP_INIT -> Reply_INITSOFT(s)
          [] OTHER -> s

(***************************************************************************)
(* TWI start condition handler                                             *)
(***************************************************************************)
\* sda_high: what the SDA pin reads once the wait loop has ended (a STOP
\* arose during the wait).
\* Variant: the overflow interrupt enabled whatever the SDA pin reads.
TwiStartHandler_alwaysRestart(s, sda_high) ==
    LET s1 == [SET_USI_SDA_AS_INPUT(s) EXCEPT
                   !.twi.device_state = "STATE_CHECK_RECEIVED_ADDRESS"]
    IN  SET_USI_TO_SHIFT_8_ADDRESS_BITS(SET_USI_TO_DETECT_TWI_RESTART(s1))

TwiStartHandler(s, sda_high) ==
    LET s1 == [SET_USI_SDA_AS_INPUT(s) EXCEPT
                   !.twi.device_state = "STATE_CHECK_RECEIVED_ADDRESS"]
        s2 == IF ~sda_high THEN SET_USI_TO_DETECT_TWI_RESTART(s1)
              ELSE SET_USI_TO_DETECT_TWI_START(s1)
    IN  SET_USI_TO_SHIFT_8_ADDRESS_BITS(s2)

(***************************************************************************)
(* USI 4-bit overflow handler                                              *)
(***************************************************************************)
\* for (i = 0; i < command_size; i++) { while (rx_byte_count-- == 0) {};
\*   rx_tail = (rx_tail + 1) & MASK; command[i] = rx_buffer[rx_tail]; }
\* A store past the end of command[] is undefined: what runs next is unknown.
RECURSIVE DrainRx(_, _, _)
DrainRx(s, i, command_size) ==
    IF ~(i < command_size) \/ s.main.pc # "loop" THEN s
    ELSE LET t == And16(s.twi.rx_tail + 1, TWI_RX_BUFFER_MASK)
             \* a count found at 0 is decremented by the failing test too
             n == IF s.twi.rx_byte_count = 0 THEN 254 ELSE s.twi.rx_byte_count - 1
             s1 == [s EXCEPT !.twi.rx_byte_count = n, !.twi.rx_tail = t]
         IN  IF i < MST_PACKET_SIZE * 2
             THEN DrainRx([s1 EXCEPT !.twi.command[i] = s.twi.rx_buffer[t]],
                          i + 1, command_size)
             ELSE [s1 EXCEPT !.main.pc = "undefined"]

\* device_state = STATE_SEND_DATA_BYTE; SET_USI_TO_SEND_ACK(): reached when
\* the drain loop and the command handler have returned.
AckAddressForRead(s) ==
    IF s.main.pc # "loop" THEN s
    ELSE SET_USI_TO_SEND_ACK([s EXCEPT !.twi.device_state = "STATE_SEND_DATA_BYTE"])

\* Variant: every address byte taken as this device's.
CheckReceivedAddress_anyAddress(s) ==
    IF And16(s.usi.USIDR, 1) # 0
    THEN AckAddressForRead(ReceiveEvent(DrainRx(s, 0, s.twi.rx_byte_count)))
    ELSE SET_USI_TO_SEND_ACK([s EXCEPT !.twi.device_state = "STATE_RECEIVE_DATA_BYTE"])

\* Variant: only the device's own address is taken, the general call is not.
CheckReceivedAddress_ownAddressOnly(s) ==
    IF (s.usi.USIDR \div 2) = TWI_ADDR
    THEN IF And16(s.usi.USIDR, 1) # 0
         THEN AckAddressForRead(ReceiveEvent(DrainRx(s, 0, s.twi.rx_byte_count)))
         ELSE SET_USI_TO_SEND_ACK(
                  [s EXCEPT !.twi.device_state = "STATE_RECEIVE_DATA_BYTE"])
    ELSE SET_USI_TO_WAIT_FOR_TWI_ADDRESS(s)

CheckReceivedAddress(s) ==
    IF (s.usi.USIDR = 0) \/ ((s.usi.USIDR \div 2) = TWI_ADDR)
    THEN IF And16(s.usi.USIDR, 1) # 0
         THEN AckAddressForRead(ReceiveEvent(DrainRx(s, 0, s.twi.rx_byte_count)))
         ELSE SET_USI_TO_SEND_ACK(
                  [s EXCEPT !.twi.device_state = "STATE_RECEIVE_DATA_BYTE"])
    ELSE SET_USI_TO_WAIT_FOR_TWI_ADDRESS(s)

\* Variant: tx_tail advanced by two, so that every other byte is skipped.
SendDataByte_skipsByte(s) ==
    IF s.twi.tx_head # s.twi.tx_tail
    THEN LET t == And16(s.twi.tx_tail + 2, TWI_TX_BUFFER_MASK)
         IN  SET_USI_TO_SEND_BYTE(
                 [s EXCEPT !.twi.tx_tail = t, !.usi.USIDR = s.twi.tx_buffer[t],
                           !.twi.device_state = "STATE_RECEIVE_ACK_AFTER_SENDING_DATA"])
    ELSE SET_USI_TO_WAIT_FOR_TWI_ADDRESS(SET_USI_TO_RECEIVE_ACK(s))

SendDataByte(s) ==
    IF s.twi.tx_head # s.twi.tx_tail
    THEN LET t == And16(s.twi.tx_tail + 1, TWI_TX_BUFFER_MASK)
         IN  SET_USI_TO_SEND_BYTE(
                 [s EXCEPT !.twi.tx_tail = t, !.usi.USIDR = s.twi.tx_buffer[t],
                           !.twi.device_state = "STATE_RECEIVE_ACK_AFTER_SENDING_DATA"])
    ELSE SET_USI_TO_WAIT_FOR_TWI_ADDRESS(SET_USI_TO_RECEIVE_ACK(s))

\* Variant: true is returned as well when the TX ring is found empty.
OverflowBody_trueOnEmptyRing(s) ==
    LET st == s.twi.device_state
        Ret(x, r) == [x EXCEPT !.obs.ret = r]
    IN  CASE st = "STATE_CHECK_RECEIVED_ADDRESS" -> Ret(CheckReceivedAddress(s), "false")
          [] st = "STATE_CHECK_RECEIVED_ACK" ->
                IF s.usi.USIDR # 0
                THEN Ret(SET_USI_TO_WAIT_FOR_TWI_ADDRESS(s), "true")
                ELSE Ret(SendDataByte(s), "false")
          [] st = "STATE_SEND_DATA_BYTE" ->
                Ret(SendDataByte(s),
                    IF s.twi.tx_head = s.twi.tx_tail THEN "true" ELSE "false")
          [] st = "STATE_RECEIVE_ACK_AFTER_SENDING_DATA" ->
                Ret(SET_USI_TO_RECEIVE_ACK(
                        [s EXCEPT !.twi.device_state = "STATE_CHECK_RECEIVED_ACK"]), "false")
          [] st = "STATE_RECEIVE_DATA_BYTE" ->
                Ret(SET_USI_TO_RECEIVE_BYTE(
                        [s EXCEPT !.twi.device_state =
                                      "STATE_PUT_BYTE_IN_RX_BUFFER_AND_SEND_ACK"]), "false")
          [] st = "STATE_PUT_BYTE_IN_RX_BUFFER_AND_SEND_ACK" ->
                LET h == And16(s.twi.rx_head + 1, TWI_RX_BUFFER_MASK)
                IN  Ret(SET_USI_TO_SEND_ACK(
                        [s EXCEPT !.twi.rx_byte_count = U8(@ + 1), !.twi.rx_head = h,
                                  !.twi.rx_buffer[h] = s.usi.USIDR,
                                  !.twi.device_state = "STATE_RECEIVE_DATA_BYTE"]), "false")

\* The handler's body: the state it leaves, with its return value in obs.ret.
OverflowBody(s) ==
    LET st == s.twi.device_state
        Ret(x, r) == [x EXCEPT !.obs.ret = r]
    IN  CASE st = "STATE_CHECK_RECEIVED_ADDRESS" -> Ret(CheckReceivedAddress(s), "false")
          [] st = "STATE_CHECK_RECEIVED_ACK" ->
                IF s.usi.USIDR # 0
                THEN Ret(SET_USI_TO_WAIT_FOR_TWI_ADDRESS(s), "true")
                ELSE Ret(SendDataByte(s), "false")
          [] st = "STATE_SEND_DATA_BYTE" -> Ret(SendDataByte(s), "false")
          [] st = "STATE_RECEIVE_ACK_AFTER_SENDING_DATA" ->
                Ret(SET_USI_TO_RECEIVE_ACK(
                        [s EXCEPT !.twi.device_state = "STATE_CHECK_RECEIVED_ACK"]), "false")
          [] st = "STATE_RECEIVE_DATA_BYTE" ->
                Ret(SET_USI_TO_RECEIVE_BYTE(
                        [s EXCEPT !.twi.device_state =
                                      "STATE_PUT_BYTE_IN_RX_BUFFER_AND_SEND_ACK"]), "false")
          [] st = "STATE_PUT_BYTE_IN_RX_BUFFER_AND_SEND_ACK" ->
                LET h == And16(s.twi.rx_head + 1, TWI_RX_BUFFER_MASK)
                IN  Ret(SET_USI_TO_SEND_ACK(
                        [s EXCEPT !.twi.rx_byte_count = U8(@ + 1), !.twi.rx_head = h,
                                  !.twi.rx_buffer[h] = s.usi.USIDR,
                                  !.twi.device_state = "STATE_RECEIVE_DATA_BYTE"]), "false")

\* The handler's return (it does not return from a hang).
LeaveHandler(r) ==
    IF r.main.pc # "loop" THEN [r EXCEPT !.obs.ret = "none"]
    ELSE [r EXCEPT !.obs.in_handler = FALSE]

UsiOverflowHandler(s) == LeaveHandler(OverflowBody([s EXCEPT !.obs.in_handler = TRUE]))

(***************************************************************************)
(* Main: set-up block and the slow operations of the loop                  *)
(***************************************************************************)
\* The state main's set-up block leaves, on the flash it finds: globals
\* zeroed, rings flushed, USI waiting for a START, temporary buffer cleared.
SetupState(c, flash) ==
    [cfg |-> c,
     twi |-> [rx_buffer |-> [i \in 0..TWI_RX_BUFFER_MASK |-> 0],
              tx_buffer |-> [i \in 0..TWI_TX_BUFFER_MASK |-> 0],
              rx_byte_count |-> 0, rx_head |-> 0, rx_tail |-> 0,
              tx_head |-> 0, tx_tail |-> 0,
              device_state |-> "STATE_CHECK_RECEIVED_ADDRESS",
              command |-> [i \in 0..(MST_PACKET_SIZE * 2 - 1) |-> 0]],
     mp |-> [page_addr |-> 0, page_ix |-> 0, flags |-> 0,
             app_reset_lsb |-> 0, app_reset_msb |-> 0],
     usi |-> [USIDR |-> 0, start_int |-> TRUE, ovf_int |-> FALSE, scl_hold |-> FALSE,
              sda_out |-> FALSE, bits |-> 8, start_flag |-> FALSE, ovf_flag |-> FALSE,
              stop_flag |-> FALSE, coll_flag |-> FALSE],
     spm |-> [flash |-> flash, page_buf |-> ClearedPage, filled |-> {}],
     main |-> [pc |-> "loop", slow_ops_enabled |-> FALSE,
               led_delay |-> SHORT_LED_DLY, exit_delay |-> SHORT_EXIT_DLY],
     obs |-> [ops |-> <<>>, ret |-> "none", in_handler |-> FALSE]]

Initialized(s) ==
    IF s.cfg.TWO_STEP_INIT
    THEN TestBit(s.mp.flags, FL_INIT_1) /\ TestBit(s.mp.flags, FL_INIT_2)
    ELSE TestBit(s.mp.flags, FL_INIT_1)

\* RunApplication(): the jump through the trampoline; it does not come back.
RunApplication(s) ==
    [LogOp(s, "RunApplication", (TIMONEL_START - 2) \div 2, <<>>) EXCEPT !.main.pc = "app"]

\* Variant: the loop steps down by half a page.
NextPageToDel_halfPage(page_to_del) == U16(page_to_del - (SPM_PAGESIZE \div 2))

\* uint16_t page_to_del = TIMONEL_START;
\* while (page_to_del != RESET_PAGE) { page_to_del -= SPM_PAGESIZE; erase }
NextPageToDel(page_to_del) == U16(page_to_del - SPM_PAGESIZE)

RECURSIVE EraseLoop(_, _)
EraseLoop(s, page_to_del) ==
    IF page_to_del = RESET_PAGE THEN s
    ELSE EraseLoop(boot_page_erase(s, NextPageToDel(page_to_del)),
                   NextPageToDel(page_to_del))

\* RestartTimonel(): the jump to TIMONEL_START runs the start-up code and
\* main's set-up block again; the flash stays as it is.
RestartTimonel(s) ==
    [SetupState(s.cfg, s.spm.flash) EXCEPT
        !.obs = LogOp(s, "RestartTimonel", TIMONEL_START \div 2, <<>>).obs]

\* Variant: the restart made before the pages are erased.
DeleteApplication_restartsFirst(s) == EraseLoop(RestartTimonel(s), TIMONEL_START)

DeleteApplication(s) == RestartTimonel(EraseLoop(s, TIMONEL_START))

\* Variant: the displacement computed without the +1 of the relative jump.
TrampolineWord_noIncrement(timonel_start, msb, lsb) ==
    LET app_vec == Or16(Shl8(msb), lsb)
        target == And16(app_vec, 4095)
        diff == U16((timonel_start \div 2) - target)
    IN  Or16(And16(U16(Not16(diff) + 1), 4095), 49152)

\* Variant: the difference complemented but not negated (the + 1 left out).
TrampolineWord_onesComplement(timonel_start, msb, lsb) ==
    LET app_vec == Or16(Shl8(msb), lsb)
        target == And16(U16(app_vec + 1), 4095)
        diff == U16((timonel_start \div 2) - target)
    IN  Or16(And16(Not16(diff), 4095), 49152)

\* tpl = (((~((TIMONEL_START >> 1) - ((((msb << 8) | lsb) + 1) & 0x0FFF)) + 1)
\*         & 0x0FFF) | 0xC000), in 16-bit arithmetic
TrampolineWord(timonel_start, msb, lsb) ==
    LET app_vec == Or16(Shl8(msb), lsb)
        target == And16(U16(app_vec + 1), 4095)
        diff == U16((timonel_start \div 2) - target)
    IN  Or16(And16(U16(Not16(diff) + 1), 4095), 49152)

\* for (i = 0; i < SPM_PAGESIZE - 2; i += 2) boot_page_fill(TPL_PAGE + i, 0xFFFF);
RECURSIVE TplFillLoop(_, _)
TplFillLoop(s, i) ==
    IF ~(i < SPM_PAGESIZE - 2) THEN s
    ELSE TplFillLoop(boot_page_fill(s, (TIMONEL_START - SPM_PAGESIZE) + i, ERASED_WORD),
                     i + 2)

\* Variant: the trampoline word put one word too low.
WriteTrampoline_wordBelow(s) ==
    LET tpl == TrampolineWord(TIMONEL_START, s.mp.app_reset_msb, s.mp.app_reset_lsb)
        s1 == boot_page_fill(TplFillLoop(s, 0), TIMONEL_START - 4, tpl)
    IN  boot_page_write(s1, TIMONEL_START - SPM_PAGESIZE)

WriteTrampoline(s) ==
    LET tpl == TrampolineWord(TIMONEL_START, s.mp.app_reset_msb, s.mp.app_reset_lsb)
        s1 == boot_page_fill(TplFillLoop(s, 0), TIMONEL_START - 2, tpl)
    IN  boot_page_write(s1, TIMONEL_START - SPM_PAGESIZE)

\* for (i = 0; i < SPM_PAGESIZE - 2; i += 2) boot_page_fill(TPL_PAGE + i, flash word);
RECURSIVE TplReadLoop(_, _)
TplReadLoop(s, i) ==
    IF ~(i < SPM_PAGESIZE - 2) THEN s
    ELSE LET a == (TIMONEL_START - SPM_PAGESIZE) + i
             page_data == U16(FlashByte(s, a) + Shl8(FlashByte(s, a + 1)))
         IN  TplReadLoop(boot_page_fill(s, a, page_data), i + 2)

\* Variant: the page's last word is not compared.
TplCompare_never(s, page_data, tpl) == s

\* if (page_data != tpl) flags |= (1 << FL_DEL_FLASH);
TplCompare(s, page_data, tpl) ==
    IF page_data # tpl THEN SetFlag(s, FL_DEL_FLASH) ELSE s

\* The last word of the trampoline page, read from flash.
TplLastWord(s) ==
    U16(FlashByte(s, TIMONEL_START - 2) + Shl8(FlashByte(s, TIMONEL_START - 1)))

CheckTrampolinePage(s) ==
    TplCompare(TplReadLoop(s, 0), TplLastWord(s),
               TrampolineWord(TIMONEL_START, s.mp.app_reset_msb, s.mp.app_reset_lsb))

\* Variant: the limit of the builds whose application may use the trampoline
\* page, in every build.
CommitLimit_tplPage(c) == TIMONEL_START

\* The upper limit of the pages the loop commits.
CommitLimit(c) ==
    IF c.APP_USE_TPL_PG \/ ~c.AUTO_PAGE_ADDR THEN TIMONEL_START
    ELSE TIMONEL_START - SPM_PAGESIZE

\* Variant: the commit test without its address guard.
CommitDue_anyAddress(s) == s.mp.page_ix = SPM_PAGESIZE

CommitDue(s) ==
    (s.mp.page_ix = SPM_PAGESIZE) /\ (s.mp.page_addr < CommitLimit(s.cfg))

\* #if FORCE_ERASE_PG  boot_page_erase(page_addr);  #endif
CommitErase(s) ==
    IF s.cfg.FORCE_ERASE_PG THEN boot_page_erase(s, s.mp.page_addr) ELSE s

\* #if AUTO_PAGE_ADDR  if (page_addr == RESET_PAGE) { trampoline }  #endif
CommitTrampoline(s) ==
    IF s.cfg.AUTO_PAGE_ADDR /\ s.mp.page_addr = RESET_PAGE
    THEN WriteTrampoline(s) ELSE s

\* #if APP_USE_TPL_PG  if (page_addr == TIMONEL_START - SPM_PAGESIZE) { check }  #endif
CommitCheckTpl(s) ==
    IF /\ s.cfg.AUTO_PAGE_ADDR /\ s.cfg.APP_USE_TPL_PG
       /\ s.mp.page_addr = TIMONEL_START - SPM_PAGESIZE
    THEN CheckTrampolinePage(s) ELSE s

\* Variant: page_addr advanced by the size of a packet, not of a page.
CommitAdvance_byPacket(s) ==
    [s EXCEPT !.mp.page_addr = IF s.cfg.AUTO_PAGE_ADDR THEN U16(@ + MST_PACKET_SIZE) ELSE @,
              !.mp.page_ix = 0]

\* #if AUTO_PAGE_ADDR  page_addr += SPM_PAGESIZE;  #endif   page_ix = 0;
CommitAdvance(s) ==
    [s EXCEPT !.mp.page_addr = IF s.cfg.AUTO_PAGE_ADDR THEN U16(@ + SPM_PAGESIZE) ELSE @,
              !.mp.page_ix = 0]

\* Variant: a commit that leaves page_addr where it was.
CommitPage_noAdvance(s) ==
    [CommitTrampoline(boot_page_write(s, s.mp.page_addr)) EXCEPT !.mp.page_ix = 0]

CommitPage(s) ==
    CommitAdvance(CommitCheckTpl(CommitTrampoline(
        boot_page_write(CommitErase(s), s.mp.page_addr))))

\* Variant: the slow-op section entered in every iteration.
SlowOpsDue_always(s) == TRUE

\* if (slow_ops_enabled == true)
SlowOpsDue(s) == s.main.slow_ops_enabled

\* The slow-op section: exit, else delete, else commit.
SlowOpsChain(s) ==
    IF TestBit(s.mp.flags, FL_EXIT_TML) THEN RunApplication(s)
    ELSE IF TestBit(s.mp.flags, FL_DEL_FLASH) THEN DeleteApplication(s)
    ELSE IF CommitDue(s) THEN CommitPage(s)
    ELSE s

\* slow_ops_enabled = false; then the chain
SlowOps(s) == SlowOpsChain([s EXCEPT !.main.slow_ops_enabled = FALSE])

\* The not-initialized branch: LED blink and exit countdown.
TimeoutCountdown(s) ==
    LET s1 == [s EXCEPT !.main.led_delay = U16(@ - 1)]
    IN  IF s.main.led_delay # 0 \/ ~s.cfg.TIMEOUT_EXIT THEN s1
        ELSE LET s2 == [s1 EXCEPT !.main.exit_delay = U8(@ - 1)]
             IN  IF s1.main.exit_delay = 0 THEN RunApplication(s2) ELSE s2

\* Variant: the slow-op section is entered without the initialization test.
LoopTail_noInitTest(s) ==
    IF s.main.pc # "loop" THEN s
    ELSE IF SlowOpsDue(s) THEN SlowOps(s)
    ELSE IF Initialized(s) THEN s
    ELSE TimeoutCountdown(s)

\* Variant: the countdown runs in every iteration that has no slow op to do.
LoopTail_alwaysCounts(s) ==
    IF s.main.pc # "loop" THEN s
    ELSE IF Initialized(s) /\ SlowOpsDue(s) THEN SlowOps(s)
    ELSE TimeoutCountdown(s)

\* What the loop does once the two handler polls are done.
LoopTail(s) ==
    IF s.main.pc # "loop" THEN s
    ELSE IF Initialized(s) THEN (IF SlowOpsDue(s) THEN SlowOps(s) ELSE s)
    ELSE TimeoutCountdown(s)

\* One iteration of for(;;): start: a START flag is found (with the SDA level
\* that ends the handler's wait); ovf: an overflow flag is found.
\* if (START flag && START interrupt enabled) TwiStartHandler();
PollStart(s, start, sda_high) ==
    IF start /\ s.usi.start_int THEN TwiStartHandler(s, sda_high) ELSE s

\* slow_ops_enabled = <the handler's return value>
AssignSlowOps(r) ==
    IF r.main.pc # "loop" THEN r
    ELSE [r EXCEPT !.main.slow_ops_enabled = (r.obs.ret = "true")]

\* if (overflow flag && overflow interrupt enabled)
\*     slow_ops_enabled = UsiOverflowHandler(p_mem_pack);
PollOverflow(s, ovf) ==
    IF ovf /\ s.usi.ovf_int THEN AssignSlowOps(UsiOverflowHandler(s)) ELSE s

\* The iteration starts with nothing recorded.
ClearObs(s) == [s EXCEPT !.obs = [ops |-> <<>>, ret |-> "none", in_handler |-> FALSE]]

Iteration(s, start, sda_high, ovf) ==
    LoopTail(PollOverflow(PollStart(ClearObs(s), start, sda_high), ovf))

(***************************************************************************)
(* The bus master                                                          *)
(***************************************************************************)
\* A page payload (its first word an rjmp, as an application's reset vector is).
Payload == <<20, 192, 51, 68>>

RECURSIVE SumBytes(_)
SumBytes(q) == IF q = <<>> THEN 0 ELSE U8(Head(q) + SumBytes(Tail(q)))

WritFrame(payload, trailer) == <<WRITPAGE>> \o payload \o <<trailer>>

\* The command frames the master chooses from.
\* Opcodes that are no case of ReceiveEvent's switch: two that are no command
\* at all, and INITSOFT, a command of the builds with TWO_STEP_INIT.
UnknownOps == {0, 255, INITSOFT}

\* A frame of n bytes, a GETTMNLV followed by bytes that tell their position;
\* the lengths are those around the size of command[] and of the RX ring.
LongFrame(n) == [i \in 1..n |-> IF i = 1 THEN GETTMNLV ELSE i]
LongLengths == {1, MST_PACKET_SIZE * 2, MST_PACKET_SIZE * 2 + 1,
                TWI_RX_BUFFER_SIZE, TWI_RX_BUFFER_SIZE + 1}

Menu ==
    { <<GETTMNLV>>, <<EXITTMNL>>, <<DELFLASH>>,
      <<STPGADDR, 0, 0>>, <<STPGADDR, 255, 251>>,
      WritFrame(Payload, SumBytes(Payload)),
      WritFrame(Payload, U8(SumBytes(Payload) + 1)) }

\* A page payload whose last word is the trampoline to the application whose
\* reset vector is msb:lsb.
HostTplPayload(msb, lsb) ==
    <<Payload[1], Payload[2], TrampolineWord(TIMONEL_START, msb, lsb) % 256,
      TrampolineWord(TIMONEL_START, msb, lsb) \div 256>>

\* The payloads of a master that writes the trampoline page itself: one that
\* ends in application code, and those that end in the trampoline for the
\* reset vector the bootloader has saved (none yet, or that of Payload).
TplPagePayloads == {Payload, HostTplPayload(0, 0), HostTplPayload(Payload[2], Payload[1])}

\* The STPGADDR frame that names the page below the bootloader.
TplPageFrame ==
    <<STPGADDR, (TIMONEL_START - SPM_PAGESIZE) \div 256,
      (TIMONEL_START - SPM_PAGESIZE) % 256>>

\* The frames of this behaviour: the menu, or the one STPGADDR frame a
\* behaviour that studies that command is started with.
Frames ==
    CASE probe.op = "stpg" -> {<<STPGADDR, probe.hi, probe.lo>>}
      [] probe.op = "bus" -> {<<GETTMNLV>>, WritFrame(Payload, SumBytes(Payload))}
      [] probe.op = "late" -> {<<GETTMNLV>>, <<EXITTMNL>>, <<DELFLASH>>,
                               WritFrame(Payload, SumBytes(Payload))}
      [] probe.op = "unknown" -> {<<GETTMNLV>>, <<READFLSH, 0, 0, 1>>}
                                  \cup {<<o>> : o \in UnknownOps}
      [] probe.op = "long" -> {LongFrame(n) : n \in LongLengths}
      [] probe.op = "read" -> {<<READFLSH, probe.hi, probe.lo, probe.len>>,
                               <<GETTMNLV>>, WritFrame(Payload, SumBytes(Payload))}
      [] probe.op = "tplpg" -> {<<GETTMNLV>>, TplPageFrame}
                                \cup {WritFrame(q, SumBytes(q)) : q \in TplPagePayloads}
      [] OTHER -> Menu

\* Address bytes (7-bit address and direction bit) of other devices on the
\* bus: neither the general call 0x00 nor TWI_ADDR with either direction.
OtherAddrs ==
    {1, 2, TWI_ADDR * 2 - 1, TWI_ADDR * 2 + 2, (TWI_ADDR + 32) * 2,
     (TWI_ADDR + 64) * 2 + 1, 254, 255}

\* Bytes the master exchanges with another device.
OtherBytes == {0, TWI_ADDR * 2 + 1, GETTMNLV}

(***************************************************************************)
(* Initial state and the loop iterations                                   *)
(***************************************************************************)
\* Flash as the bootloader finds it: application region erased, bootloader
\* region holding the bootloader's own code (words left opaque).
FreshFlash ==
    [p \in 1..NumPages |->
        IF (p - 1) * SPM_PAGESIZE < TIMONEL_START THEN ClearedPage
        ELSE [i \in 1..PageWords |-> 0]]

\* The program after main's set-up block, the master idle.
\* The master before its first transaction.
MasterAtRest ==
    [phase |-> "idle", frame |-> <<>>, op |-> 0, want |-> 0, got |-> 0,
     ncmds |-> 0, moved_mid_page |-> FALSE, addr |-> 0, back |-> "idle",
     tail0 |-> 0, reply |-> <<>>, sent |-> <<>>]

\* The program is in state s and the master at rest.
InitAt(s) ==
    /\ cfg = s.cfg /\ twi = s.twi /\ mem_pack = s.mp /\ usi = s.usi
    /\ spm = s.spm /\ main = s.main /\ obs = s.obs
    /\ master = MasterAtRest

InitProgram(c) == InitAt(SetupState(c, FreshFlash))

InitWith(c) == InitProgram(c) /\ probe = [op |-> "none"]

Init == InitWith(DefaultCfg)

\* The iteration's result becomes the next state; the master moves to phase ph.
\* A transaction ends for the master when the device stops answering.
Step(s, m) ==
    /\ cfg' = s.cfg /\ twi' = s.twi /\ mem_pack' = s.mp /\ usi' = s.usi
    /\ spm' = s.spm /\ main' = s.main /\ obs' = s.obs
    /\ master' = IF s.main.pc = "loop" /\ m.phase \in {"wr", "rd"} /\ ~s.usi.ovf_int
                 THEN [m EXCEPT !.phase = "idle", !.frame = <<>>, !.op = 0,
                                !.want = 0, !.got = 0]
                 ELSE m
    /\ UNCHANGED probe

Running == main.pc = "loop"

\* The master issues START and will write frame f.
StartWrite(f) ==
    /\ Running /\ master.phase = "idle" /\ master.ncmds < MaxCmds
    /\ Step(Iteration(Cur, TRUE, FALSE, FALSE),
            [master EXCEPT !.phase = "addr_w", !.frame = f, !.op = Head(f),
                           !.ncmds = @ + 1])

\* The length of the reply the master expects to a command.
ReplyLen(op) ==
    CASE op = GETTMNLV -> GETTMNLV_RPLYLN
      [] op = STPGADDR -> STPGADDR_RPLYLN
      [] op = WRITPAGE -> WRITPAGE_RPLYLN
      [] op = READFLSH /\ probe.op = "read" -> probe.len + 2
      [] OTHER -> 1

\* How many bytes the master may decide to read: the reply, or only its first
\* byte, or one byte more (it then acknowledges the reply's last byte).
ReadLens(op) ==
    {ReplyLen(op)} \cup (IF master.ncmds < MaxCmds THEN {1, ReplyLen(op) + 1} ELSE {})

\* The master has written its frame and issues START to read n reply bytes,
\* ending the read with NACK after the n-th.
StartRead(n) ==
    /\ Running /\ master.phase = "wr_done"
    /\ Step(Iteration(Cur, TRUE, FALSE, FALSE),
            [master EXCEPT !.phase = "addr_r", !.want = n, !.got = 0,
                           !.tail0 = twi.tx_tail, !.reply = <<>>, !.sent = <<>>,
                           !.ncmds = IF n = ReplyLen(master.op) THEN @ ELSE @ + 1])

\* The command about to be dispatched is a STPGADDR arriving while a page is
\* partly filled (the master's record of having done so).
MovesMidPage ==
    /\ master.phase = "addr_r" /\ master.op = STPGADDR /\ cfg.CMD_SETPGADDR
    /\ mem_pack.page_ix > 0

\* The bytes put in the TX ring between state s and state r, oldest first.
QueuedBetween(s, r) ==
    [i \in 1..((r.twi.tx_head - s.twi.tx_head) % TWI_TX_BUFFER_SIZE) |->
        r.twi.tx_buffer[And16(s.twi.tx_head + i, TWI_TX_BUFFER_MASK)]]

\* The address byte has been shifted in.  The master's record keeps the reply
\* the device has queued for this read.
AddressByte ==
    /\ Running /\ master.phase \in {"addr_w", "addr_r"} /\ usi.ovf_int
    /\ LET d == TWI_ADDR * 2 + (IF master.phase = "addr_r" THEN 1 ELSE 0)
           s == [Cur EXCEPT !.usi.USIDR = d, !.usi.ovf_flag = TRUE]
           r == Iteration(s, FALSE, FALSE, TRUE)
       IN  Step(r, [master EXCEPT !.phase = IF @ = "addr_r" THEN "rd" ELSE "wr",
                                  !.moved_mid_page = @ \/ MovesMidPage,
                                  !.reply = IF master.phase = "addr_r"
                                            THEN QueuedBetween(s, r) ELSE @])

\* The device's ACK bit has been shifted out.
AckBitOut ==
    /\ Running /\ master.phase \in {"wr", "rd"} /\ usi.ovf_int
    /\ usi.sda_out /\ usi.bits = 1
    /\ Step(Iteration([Cur EXCEPT !.usi.ovf_flag = TRUE], FALSE, FALSE, TRUE),
            [master EXCEPT !.phase = IF @ = "wr" /\ master.frame = <<>>
                                     THEN "wr_done" ELSE @])

\* A data byte of the master's frame has been shifted in.
DataByteIn ==
    /\ Running /\ master.phase = "wr" /\ usi.ovf_int
    /\ ~usi.sda_out /\ usi.bits = 8 /\ master.frame # <<>>
    /\ LET s == [Cur EXCEPT !.usi.USIDR = Head(master.frame), !.usi.ovf_flag = TRUE]
       IN  Step(Iteration(s, FALSE, FALSE, TRUE), [master EXCEPT !.frame = Tail(@)])

\* A reply byte has been shifted out.
DataByteOut ==
    /\ Running /\ master.phase = "rd" /\ usi.ovf_int
    /\ usi.sda_out /\ usi.bits = 8
    /\ Step(Iteration([Cur EXCEPT !.usi.ovf_flag = TRUE], FALSE, FALSE, TRUE),
            [master EXCEPT !.got = @ + 1, !.sent = Append(@, usi.USIDR)])

\* The master's bit after a reply byte has been shifted in: NACK (1) after
\* the last byte it wants, ACK (0) before.
AckBitIn ==
    /\ Running /\ master.phase = "rd" /\ usi.ovf_int
    /\ ~usi.sda_out /\ usi.bits = 1
    /\ LET nack == master.got = master.want
           s == [Cur EXCEPT !.usi.USIDR = IF nack THEN 1 ELSE 0, !.usi.ovf_flag = TRUE]
       IN  Step(Iteration(s, FALSE, FALSE, TRUE), master)

Next ==
    \/ \E f \in Frames : StartWrite(f)
    \/ \E n \in ReadLens(master.op) : StartRead(n)
    \/ AddressByte
    \/ AckBitOut
    \/ DataByteIn
    \/ DataByteOut
    \/ AckBitIn

Spec == Init /\ [][Next]_vars

\* The master issues START to talk to another device, at address byte a, for
\* n bytes; it does so between two commands, or between the frame of a
\* command and the read of its reply.
StartOther(a, n) ==
    /\ Running /\ master.phase \in {"idle", "wr_done"} /\ master.ncmds < MaxCmds
    /\ Step(Iteration(Cur, TRUE, FALSE, FALSE),
            [master EXCEPT !.phase = "addr_o", !.addr = a, !.back = master.phase,
                           !.want = n, !.got = 0, !.ncmds = @ + 1])

\* The other device's address byte has been shifted in.
OtherAddressByte ==
    /\ Running /\ master.phase = "addr_o" /\ usi.ovf_int
    /\ Step(Iteration([Cur EXCEPT !.usi.USIDR = master.addr, !.usi.ovf_flag = TRUE],
                      FALSE, FALSE, TRUE),
            [master EXCEPT !.phase = "other"])

\* A byte between the master and the other device has gone over the bus: the
\* USI has shifted it in and its counter has overflowed.
OtherByte(b) ==
    /\ Running /\ master.phase = "other" /\ master.got < master.want
    /\ Step(Iteration([Cur EXCEPT !.usi.USIDR = b, !.usi.ovf_flag = TRUE],
                      FALSE, FALSE, TRUE),
            [master EXCEPT !.got = @ + 1])

\* The master ends the transaction with the other device (STOP): the loop
\* goes round with no flag to act on.
OtherStop ==
    /\ Running /\ master.phase = "other" /\ master.got = master.want
    /\ Step(Iteration(Cur, FALSE, FALSE, usi.ovf_flag),
            [master EXCEPT !.phase = master.back, !.addr = 0, !.back = "idle",
                           !.want = 0, !.got = 0])

\* The bootloader on a bus it shares with other devices.
NextBus ==
    \/ Next
    \/ \E a \in OtherAddrs, n \in {0, 2} : StartOther(a, n)
    \/ OtherAddressByte
    \/ \E b \in OtherBytes : OtherByte(b)
    \/ OtherStop

InitBus == InitProgram(DefaultCfg) /\ probe = [op |-> "bus"]

SpecBus == InitBus /\ [][NextBus]_vars

\* The master issues START and will write frame f to the general-call
\* address.
StartCall(f) ==
    /\ Running /\ master.phase = "idle" /\ master.ncmds < MaxCmds
    /\ Step(Iteration(Cur, TRUE, FALSE, FALSE),
            [master EXCEPT !.phase = "addr_c", !.frame = f, !.op = Head(f),
                           !.ncmds = @ + 1])

\* The state the overflow of address byte d is handled in, and the one the
\* iteration that handles it leaves.
WithAddressByte(d) == [Cur EXCEPT !.usi.USIDR = d, !.usi.ovf_flag = TRUE]
AfterAddressByte(d) == Iteration(WithAddressByte(d), FALSE, FALSE, TRUE)

\* The general-call address byte 0x00 has been shifted in.
CallAddressByte ==
    /\ Running /\ master.phase = "addr_c" /\ usi.ovf_int
    /\ Step(AfterAddressByte(0), [master EXCEPT !.phase = "wr"])

\* A master that writes its frames to the device's address or to the general
\* call.
NextCall ==
    \/ Next
    \/ \E f \in Frames : StartCall(f)
    \/ CallAddressByte

SpecCall == InitBus /\ [][NextCall]_vars

\* The state the START finds: the USI hardware has set the STOP flag (at the
\* STOP of an earlier transaction) and the collision flag, or has not.
WithBusFlags(sf, cf) == [Cur EXCEPT !.usi.stop_flag = sf, !.usi.coll_flag = cf]

\* The master issues START and will write frame f.
StartFlagged(f, sf, cf) ==
    /\ Running /\ master.phase = "idle" /\ master.ncmds < MaxCmds
    /\ Step(Iteration(WithBusFlags(sf, cf), TRUE, FALSE, FALSE),
            [master EXCEPT !.phase = "addr_w", !.frame = f, !.op = Head(f),
                           !.ncmds = @ + 1])

\* The master issues START and gives the bus up at once: SDA rises while SCL
\* is still high, which ends the handler's wait with SDA read high.
StartThenStop(sf, cf) ==
    /\ Running /\ master.phase \in {"idle", "wr_done"} /\ master.ncmds < MaxCmds
    /\ Step(Iteration(WithBusFlags(sf, cf), TRUE, TRUE, FALSE),
            [master EXCEPT !.ncmds = @ + 1])

\* A master some of whose START conditions are followed by STOP.
NextStart ==
    \/ Next
    \/ \E f \in Frames, sf \in BOOLEAN, cf \in BOOLEAN : StartFlagged(f, sf, cf)
    \/ \E sf \in BOOLEAN, cf \in BOOLEAN : StartThenStop(sf, cf)

SpecStart == InitBus /\ [][NextStart]_vars

\* The master issues START to read n bytes without having written a frame:
\* the RX ring holds nothing for the dispatcher.
StartBareRead(n) ==
    /\ Running /\ master.phase = "idle" /\ master.ncmds < MaxCmds
    /\ Step(Iteration(Cur, TRUE, FALSE, FALSE),
            [master EXCEPT !.phase = "addr_r", !.want = n, !.got = 0,
                           !.tail0 = twi.tx_tail, !.reply = <<>>, !.sent = <<>>,
                           !.ncmds = @ + 1])

\* A master that also reads when it has written nothing.
NextBareRead ==
    \/ Next
    \/ \E n \in {1, 2} : StartBareRead(n)

SpecBareRead == InitBus /\ [][NextBareRead]_vars

(***************************************************************************)
(* The stand-alone USI TWI driver (nb-usitwisl-if3.h): its two rings       *)
(***************************************************************************)
\* FlushTwiBuffers(): both rings empty. d.USIDR is the data register, d.ret
\* the byte the last UsiTwiReceiveByte returned.
If3_FlushTwiBuffers ==
    [rx_buffer |-> [i \in 0..TWI_RX_BUFFER_MASK |-> 0],
     tx_buffer |-> [i \in 0..TWI_TX_BUFFER_MASK |-> 0],
     rx_tail |-> 0, rx_head |-> 0, rx_count |-> 0,
     tx_tail |-> 0, tx_head |-> 0, tx_count |-> 0,
     USIDR |-> 0, ret |-> 0]

\* while (tx_count++ == TWI_TX_BUFFER_SIZE) {}: the value of tx_count when
\* the loop is left. The loop is polled code: nothing else runs meanwhile.
RECURSIVE If3_TxWait(_)
If3_TxWait(tx_count) ==
    IF tx_count = TWI_TX_BUFFER_SIZE THEN If3_TxWait(U8(tx_count + 1))
    ELSE U8(tx_count + 1)

\* tx_buffer[tx_head] = data_byte; tx_head = (tx_head + 1) & MASK;
If3_UsiTwiTransmitByte(d, data_byte) ==
    [d EXCEPT !.tx_count = If3_TxWait(d.tx_count),
              !.tx_buffer[d.tx_head] = data_byte,
              !.tx_head = And16(d.tx_head + 1, TWI_TX_BUFFER_MASK)]

\* case STATE_SEND_DATA: if (tx_count--) { USIDR = tx_buffer[tx_tail]; ... }
If3_SendData(d) ==
    IF d.tx_count # 0
    THEN [d EXCEPT !.tx_count = U8(d.tx_count - 1),
                   !.USIDR = d.tx_buffer[d.tx_tail],
                   !.tx_tail = And16(d.tx_tail + 1, TWI_TX_BUFFER_MASK)]
    ELSE [d EXCEPT !.tx_count = U8(d.tx_count - 1)]

\* case STATE_RECEIVE_DATA_AND_SEND_ACK:
\* if (rx_count++ < TWI_RX_BUFFER_SIZE) { rx_buffer[rx_head] = USIDR; ... }
If3_ReceiveData(d, usidr) ==
    IF d.rx_count < TWI_RX_BUFFER_SIZE
    THEN [d EXCEPT !.rx_count = U8(d.rx_count + 1),
                   !.rx_buffer[d.rx_head] = usidr,
                   !.rx_head = And16(d.rx_head + 1, TWI_RX_BUFFER_MASK)]
    ELSE [d EXCEPT !.rx_count = U8(d.rx_count + 1)]

\* while (!rx_count--) {}: the value of rx_count when the loop is left.
RECURSIVE If3_RxWait(_)
If3_RxWait(rx_count) ==
    IF rx_count = 0 THEN If3_RxWait(U8(rx_count - 1))
    ELSE U8(rx_count - 1)

\* received_byte = rx_buffer[rx_tail]; rx_tail = (rx_tail + 1) & MASK;
If3_UsiTwiReceiveByte(d) ==
    [d EXCEPT !.rx_count = If3_RxWait(d.rx_count),
              !.ret = d.rx_buffer[d.rx_tail],
              !.rx_tail = And16(d.rx_tail + 1, TWI_RX_BUFFER_MASK)]

\* The driver used by an application and a master: probe.d is the driver,
\* probe.n the number of calls made, probe.unsent the bytes UsiTwiTransmitByte
\* has queued and STATE_SEND_DATA has not taken, probe.unread the bytes stored
\* by STATE_RECEIVE_DATA_AND_SEND_ACK and not returned by UsiTwiReceiveByte.
\* The k-th call passes the byte k.
InitIf3 ==
    /\ InitProgram(DefaultCfg)
    /\ probe = [op |-> "if3", d |-> If3_FlushTwiBuffers, n |-> 0, last |-> "none",
                unsent |-> <<>>, unread |-> <<>>, regular |-> TRUE]

\* regular: the call is none of the four made on a ring that cannot serve it
\* (a byte queued on a full ring or taken from an empty one).
If3Call(name, d, unsent, unread, regular) ==
    /\ probe.op = "if3" /\ probe.n < MaxDriverCalls
    /\ probe' = [probe EXCEPT !.d = d, !.n = @ + 1, !.last = name,
                               !.unsent = unsent, !.unread = unread,
                               !.regular = @ /\ regular]
    /\ UNCHANGED <<cfg, twi, mem_pack, usi, spm, main, obs, master>>

\* The application queues a reply byte.
If3Transmit ==
    If3Call("transmit", If3_UsiTwiTransmitByte(probe.d, U8(probe.n + 1)),
            Append(probe.unsent, U8(probe.n + 1)), probe.unread,
            Len(probe.unsent) < TWI_TX_BUFFER_SIZE)

\* The master clocks a byte out of the device.
If3Send ==
    If3Call("send", If3_SendData(probe.d),
            IF probe.unsent = <<>> THEN <<>> ELSE Tail(probe.unsent), probe.unread,
            probe.unsent # <<>>)

\* The master has clocked a byte into the device.
If3Put ==
    If3Call("put", If3_ReceiveData(probe.d, U8(probe.n + 1)), probe.unsent,
            IF Len(probe.unread) < TWI_RX_BUFFER_SIZE
            THEN Append(probe.unread, U8(probe.n + 1)) ELSE probe.unread,
            Len(probe.unread) < TWI_RX_BUFFER_SIZE)

\* The application asks for a received byte.
If3Receive ==
    If3Call("receive", If3_UsiTwiReceiveByte(probe.d), probe.unsent,
            IF probe.unread = <<>> THEN <<>> ELSE Tail(probe.unread),
            probe.unread # <<>>)

\* The TX ring between the application and the master, and the RX ring
\* between the master and the application.
SpecIf3Tx == InitIf3 /\ [][If3Transmit \/ If3Send]_vars
SpecIf3Rx == InitIf3 /\ [][If3Put \/ If3Receive]_vars

\* The program built with CMD_READFLASH, and a master that reads flash back:
\* one READFLSH frame per behaviour, its address and length taken around the
\* boundaries of the flash, of the TX ring and of the length byte.
ReadFlashCfg == [DefaultCfg EXCEPT !.CMD_READFLASH = TRUE]
ReadAddrs == {<<0, 0>>, <<0, TIMONEL_START - 2>>, <<255, 254>>}
ReadLengths == {0, 1, SPM_PAGESIZE, TWI_TX_BUFFER_SIZE - 3, TWI_TX_BUFFER_SIZE - 2, 254, 255}

InitRead ==
    /\ InitProgram(ReadFlashCfg)
    /\ \E a \in ReadAddrs, n \in ReadLengths :
          probe = [op |-> "read", hi |-> a[1], lo |-> a[2], len |-> n]

SpecRead == InitRead /\ [][Next]_vars

\* The program left alone: no master ever addresses the bus, and every
\* iteration of for(;;) finds neither flag set. probe counts the iterations
\* and keeps the two delays the build started from (SHORT_LED_DLY and
\* SHORT_EXIT_DLY, and their neighbours).
IdleLedDelays == {SHORT_LED_DLY, SHORT_LED_DLY + 1}
IdleExitDelays == {SHORT_EXIT_DLY, SHORT_EXIT_DLY + 1}

\* uint8_t exit_delay = SHORT_EXIT_DLY;  uint16_t led_delay = SHORT_LED_DLY;
SetupWithDelays(l, e) ==
    [SetupState(DefaultCfg, FreshFlash) EXCEPT !.main.led_delay = l,
                                               !.main.exit_delay = e]

InitIdle ==
    \E l \in IdleLedDelays, e \in IdleExitDelays :
       /\ InitAt(SetupWithDelays(l, e))
       /\ probe = [op |-> "idle", n |-> 0, led0 |-> l, exit0 |-> e]

\* One iteration of for(;;) in which neither poll finds its flag.
IdleIteration ==
    /\ Running
    /\ cfg' = Iteration(Cur, FALSE, FALSE, FALSE).cfg
    /\ twi' = Iteration(Cur, FALSE, FALSE, FALSE).twi
    /\ mem_pack' = Iteration(Cur, FALSE, FALSE, FALSE).mp
    /\ usi' = Iteration(Cur, FALSE, FALSE, FALSE).usi
    /\ spm' = Iteration(Cur, FALSE, FALSE, FALSE).spm
    /\ main' = Iteration(Cur, FALSE, FALSE, FALSE).main
    /\ obs' = Iteration(Cur, FALSE, FALSE, FALSE).obs
    /\ probe' = [probe EXCEPT !.n = @ + 1]
    /\ UNCHANGED master

SpecIdle == InitIdle /\ [][IdleIteration]_vars

\* The program found by the master late in its wait: exit_delay is at 0 and
\* led_delay has few iterations to go, as after 65536 * SHORT_EXIT_DLY idle
\* iterations and more. A master that is quick enough initializes the
\* bootloader before the countdown ends; a slower one sees the application
\* started in the middle of its transaction.
LateLedDelays == {0, 6, 14, 100}

InitLate ==
    \E l \in LateLedDelays :
       /\ InitAt(SetupWithDelays(l, 0))
       /\ probe = [op |-> "late"]

SpecLate == InitLate /\ [][Next]_vars

\* A master that sends opcodes the build does not know, among them READFLSH
\* (the build is without CMD_READFLASH), and GETTMNLV.
InitUnknown == InitProgram(DefaultCfg) /\ probe = [op |-> "unknown"]

SpecUnknown == InitUnknown /\ [][Next]_vars

\* A master that writes frames longer than a command: the device takes every
\* byte it is sent, whatever their number.
InitLong == InitProgram(DefaultCfg) /\ probe = [op |-> "long"]

SpecLong == InitLong /\ [][Next]_vars

\* The TX ring on its own: a sequence of bytes is put in with
\* UsiTwiTransmitByte and then taken out by SEND_DATA_BYTE steps. The ring
\* starts empty, with head and tail at the start, in the middle or at the end
\* of the array.
RingBytes(n, b) == [i \in 1..n |-> (b + i) % 256]
RingStarts == {0, 9, TWI_TX_BUFFER_MASK}

InitRing ==
    \E n \in 0..TWI_TX_BUFFER_SIZE, b \in {0, 250}, h \in RingStarts :
       /\ InitAt([SetupState(DefaultCfg, FreshFlash) EXCEPT !.twi.tx_head = h,
                                                            !.twi.tx_tail = h])
       /\ probe = [op |-> "ring", s |-> RingBytes(n, b), todo |-> RingBytes(n, b),
                   out |-> <<>>]

\* The program is in state r next; what is left to put in is todo, and out
\* is what has been taken out.
RingStep(r, todo, out) ==
    /\ cfg' = r.cfg /\ twi' = r.twi /\ mem_pack' = r.mp /\ usi' = r.usi
    /\ spm' = r.spm /\ main' = r.main /\ obs' = r.obs
    /\ probe' = [probe EXCEPT !.todo = todo, !.out = out]
    /\ UNCHANGED master

RingPut ==
    /\ Running /\ probe.todo # <<>>
    /\ RingStep(UsiTwiTransmitByte(Cur, Head(probe.todo)), Tail(probe.todo), probe.out)

RingTake ==
    /\ Running /\ probe.todo = <<>> /\ twi.tx_head # twi.tx_tail
    /\ RingStep(SendDataByte(Cur), probe.todo,
                Append(probe.out, SendDataByte(Cur).usi.USIDR))

SpecRing == InitRing /\ [][RingPut \/ RingTake]_vars

\* The same program built with CHECK_PAGE_IX.
CheckIxCfg == [DefaultCfg EXCEPT !.CHECK_PAGE_IX = TRUE]
InitCheckIx == InitWith(CheckIxCfg)
SpecCheckIx == InitCheckIx /\ [][Next]_vars

\* The same program with a master that sends one STPGADDR frame, again and
\* again, its two address bytes taken around the byte and page boundaries.
StpgHi == {0, 1, 127, 128, 255}
StpgLo == {0, 1, 7, 8, 9, 127, 128, 248, 255}

InitStpg ==
    /\ InitProgram(DefaultCfg)
    /\ \E hi \in StpgHi, lo \in StpgLo : probe = [op |-> "stpg", hi |-> hi, lo |-> lo]

SpecStpg == InitStpg /\ [][Next]_vars

\* The same program with a master that names the page below the bootloader
\* and writes it: in the build whose application may use that page, and in
\* the default build, where the page is the bootloader's.
TplPageCfg == [DefaultCfg EXCEPT !.APP_USE_TPL_PG = TRUE]

InitTplPage == InitProgram(TplPageCfg) /\ probe = [op |-> "tplpg"]

SpecTplPage == InitTplPage /\ [][Next]_vars

InitAutoPage == InitProgram(DefaultCfg) /\ probe = [op |-> "tplpg"]

SpecAutoPage == InitAutoPage /\ [][Next]_vars

(***************************************************************************)
(* The erase loop of the delete slow operation, one pass per step, for a   *)
(* bootloader start that is any multiple of the page size                  *)
(***************************************************************************)
InitErase ==
    /\ InitProgram(DefaultCfg)
    /\ \E k \in 0..MaxErasePages :
          probe = [op |-> "erase", start |-> k * SPM_PAGESIZE,
                   page_to_del |-> k * SPM_PAGESIZE]

\* while (page_to_del != RESET_PAGE) { page_to_del -= SPM_PAGESIZE;
\*                                     boot_page_erase(page_to_del); }
EraseStep ==
    /\ probe.op = "erase" /\ probe.page_to_del # RESET_PAGE
    /\ LET a == NextPageToDel(probe.page_to_del)
           s == boot_page_erase(Cur, a)
       IN  /\ spm' = s.spm /\ obs' = s.obs
           /\ probe' = [probe EXCEPT !.page_to_del = a]
    /\ UNCHANGED <<cfg, twi, mem_pack, usi, main, master>>

\* The loop is straight-line code: once entered it runs to its exit test.
SpecErase == InitErase /\ [][EraseStep]_vars /\ WF_vars(EraseStep)

(***************************************************************************)
(* The trampoline word, for saved reset vectors and bootloader starts      *)
(* around the boundaries of its 12-bit and 16-bit arithmetic               *)
(***************************************************************************)
Around(bases, step) == {b + j * step : b \in bases, j \in (0 - TplSpan)..TplSpan}

InitTpl ==
    /\ InitProgram(DefaultCfg)
    /\ \E ts \in {U16(x) : x \in Around({0, 6656, 8192, 32768}, SPM_PAGESIZE)},
          msb \in {U8(x) : x \in Around({0, 16, 192}, 1)},
          lsb \in {U8(x) : x \in Around({0}, 1)} :
          probe = [op |-> "tpl", timonel_start |-> ts, msb |-> msb, lsb |-> lsb,
                   done |-> FALSE, tpl |-> 0]

\* uint16_t tpl = ...;
ComputeTrampoline ==
    /\ probe.op = "tpl" /\ ~probe.done
    /\ probe' = [probe EXCEPT !.done = TRUE,
                              !.tpl = TrampolineWord(probe.timonel_start,
                                                     probe.msb, probe.lsb)]
    /\ UNCHANGED <<cfg, twi, mem_pack, usi, spm, main, obs, master>>

SpecTpl == InitTpl /\ [][ComputeTrampoline]_vars

(***************************************************************************)
(* Properties                                                              *)
(***************************************************************************)
\* The platform calls of the latest iteration, by kind.
OpsOf(kinds) == {i \in DOMAIN obs.ops : obs.ops[i].op \in kinds}
OpsOfNext(kinds) == {i \in DOMAIN obs'.ops : obs'.ops[i].op \in kinds}
FlashCalls == OpsOf({"erase", "write"})

\* The addresses of the latest iteration's calls of one kind, in call order.
AddrsOf(ops, kind) ==
    LET sel == SelectSeq(ops, LAMBDA o : o.op = kind)
    IN  [i \in DOMAIN sel |-> sel[i].addr]

\* 0xC000 | ((TIMONEL_START / 2) - 1)
JumpToBootloader == Or16(49152, (TIMONEL_START \div 2) - 1)

\* This step is the iteration in which the overflow handler, having the
\* device's address with the read bit, drains RX and dispatches the command.
DispatchStep == master.phase = "addr_r" /\ master'.phase # "addr_r"

\* This step is an iteration whose overflow handler returned true with the
\* bootloader initialized: the slow-op section runs in it.
SlowOpCycle == Running /\ Initialized(Cur) /\ obs'.ret = "true"

\* C1: every boot_page_erase / boot_page_write is made outside
\* UsiOverflowHandler and the command handlers, in an iteration whose
\* UsiOverflowHandler returned true, with slow_ops_enabled already reset to
\* false when the call is made.
C1_SlowOpsDeferred ==
    \A i \in FlashCalls :
        /\ ~obs.ops[i].in_handler
        /\ ~obs.ops[i].soe
        /\ obs.ret = "true"

\* A page commit has been made.
C1_Witness == \E i \in FlashCalls : obs.ops[i].op = "write" /\ obs.ret = "true"

\* C2: every address passed to boot_page_erase or boot_page_write is strictly
\* below TIMONEL_START, whatever 16-bit address STPGADDR has set.
C2_BootloaderRegionUntouched ==
    \A i \in FlashCalls : obs.ops[i].addr < TIMONEL_START

\* A full page buffer addressed at or above TIMONEL_START has met a slow-op
\* cycle, which has left it uncommitted.
C2_Witness ==
    /\ Running /\ Initialized(Cur) /\ obs.ret = "true"
    /\ mem_pack.page_ix = SPM_PAGESIZE /\ mem_pack.page_addr >= TIMONEL_START
    /\ ~TestBit(mem_pack.flags, FL_DEL_FLASH)

C4_ResetVectorFill ==
    [][(/\ DispatchStep /\ twi'.command[0] = WRITPAGE
        /\ U16(mem_pack.page_addr + mem_pack.page_ix) = 0)
       => (/\ AddrsOf(obs'.ops, "fill")[1] = 0
           /\ \A i \in OpsOfNext({"fill"}) :
                 obs'.ops[i].addr = 0 => obs'.ops[i].data = <<JumpToBootloader>>
           /\ spm'.page_buf[1] = JumpToBootloader
           /\ mem_pack'.app_reset_lsb = twi'.command[1]
           /\ mem_pack'.app_reset_msb = twi'.command[2])]_vars

\* The reset-page branch has run on a payload whose first word is not the jump.
C4_Witness ==
    /\ \E i \in OpsOf({"fill"}) : obs.ops[i].addr = 0 /\ obs.ops[i].in_handler
    /\ mem_pack.app_reset_lsb = Payload[1] /\ mem_pack.app_reset_msb = Payload[2]
    /\ Or16(Shl8(Payload[2]), Payload[1]) # JumpToBootloader

\* The WRITPAGE frame dispatched in this step: its checksum as the sum of its
\* payload bytes, and the second byte of the reply it queues.
FrameSum == SumBytes([i \in 1..MST_PACKET_SIZE |-> twi'.command[i]])
FrameTrailer == twi'.command[MST_PACKET_SIZE + 1]
SecondReplyByte == twi'.tx_buffer[And16(twi.tx_head + 2, TWI_TX_BUFFER_MASK)]
WritPageHandled == DispatchStep /\ twi'.command[0] = WRITPAGE /\ main'.pc = "loop"
DelFlashSetByHandler ==
    TestBit(mem_pack'.flags, FL_DEL_FLASH) /\ ~TestBit(mem_pack.flags, FL_DEL_FLASH)

\* C5 as stated: if the trailing byte equals the sum of the payload bytes
\* mod 256 the second reply byte is that sum and the handler does not set
\* DEL_FLASH; otherwise the second reply byte is 0 and DEL_FLASH is set.
C5_ChecksumDecides ==
    [][WritPageHandled
       => IF FrameTrailer = FrameSum
          THEN SecondReplyByte = FrameSum /\ ~DelFlashSetByHandler
          ELSE SecondReplyByte = 0 /\ TestBit(mem_pack'.flags, FL_DEL_FLASH)]_vars

\* C5: the frame is accepted if the trailing byte equals the sum of the
\* payload bytes mod 256 and, in a build with CHECK_PAGE_IX, page_ix after
\* the fill is at most the page size; the second reply byte of an accepted
\* frame is the sum and the handler does not set DEL_FLASH; that of any other
\* frame is 0 and DEL_FLASH is set.  Both branches of the handler.
C5_ChecksumAndIndexDecide ==
    [][WritPageHandled
       => IF /\ FrameTrailer = FrameSum
             /\ (cfg.CHECK_PAGE_IX => mem_pack'.page_ix <= SPM_PAGESIZE)
          THEN SecondReplyByte = FrameSum /\ ~DelFlashSetByHandler
          ELSE SecondReplyByte = 0 /\ TestBit(mem_pack'.flags, FL_DEL_FLASH)]_vars

\* A frame with a matching checksum has been refused for its page index, in
\* the ordinary branch.
C5_Witness ==
    /\ cfg.CHECK_PAGE_IX /\ twi.command[0] = WRITPAGE
    /\ master.phase = "rd" /\ master.got = 0
    /\ mem_pack.page_ix > SPM_PAGESIZE
    /\ twi.command[MST_PACKET_SIZE + 1] = SumBytes(Payload)
    /\ twi.tx_buffer[twi.tx_head] = 0
    /\ TestBit(mem_pack.flags, FL_DEL_FLASH)

\* C6: whenever DEL_FLASH is set at the start of a slow-op cycle, that cycle
\* erases the application pages and restarts the bootloader, commits no page
\* and does not launch the application.
C6_DeleteOnNextCycle ==
    [][(SlowOpCycle /\ TestBit(mem_pack.flags, FL_DEL_FLASH))
       => (/\ OpsOfNext({"erase"}) # {}
           /\ OpsOfNext({"RestartTimonel"}) # {}
           /\ OpsOfNext({"write", "RunApplication"}) = {})]_vars

\* C8: a slow-op cycle that finds a full page buffer for a page p below the
\* commit limit, and neither an exit nor a deletion pending, calls
\* boot_page_write(p), and for p = 0 boot_page_write(TIMONEL_START - PAGESIZE)
\* after it; it leaves page_addr = p + PAGESIZE and page_ix = 0.  Every
\* iteration that writes a page is such a commit.
C8_PageCommit ==
    [][/\ (/\ SlowOpCycle
           /\ ~TestBit(mem_pack.flags, FL_EXIT_TML)
           /\ ~TestBit(mem_pack.flags, FL_DEL_FLASH)
           /\ mem_pack.page_ix = SPM_PAGESIZE
           /\ mem_pack.page_addr < TIMONEL_START - SPM_PAGESIZE)
          => (/\ AddrsOf(obs'.ops, "write") =
                    IF mem_pack.page_addr = 0
                    THEN <<0, TIMONEL_START - SPM_PAGESIZE>>
                    ELSE <<mem_pack.page_addr>>
              /\ mem_pack'.page_addr = mem_pack.page_addr + SPM_PAGESIZE
              /\ mem_pack'.page_ix = 0)
       /\ (OpsOfNext({"write"}) # {})
          => (/\ AddrsOf(obs'.ops, "write")[1] = mem_pack.page_addr
              /\ mem_pack'.page_addr = mem_pack.page_addr + SPM_PAGESIZE
              /\ mem_pack'.page_ix = 0)]_vars

\* The reset page has been committed after PAGESIZE / MST_PACKET_SIZE accepted
\* frames, and the trampoline page after it.
C8_Witness ==
    /\ AddrsOf(obs.ops, "write") = <<0, TIMONEL_START - SPM_PAGESIZE>>
    /\ mem_pack.page_addr = SPM_PAGESIZE /\ mem_pack.page_ix = 0
    /\ spm.flash[1] = <<JumpToBootloader, Or16(Shl8(Payload[4]), Payload[3]),
                        Or16(Shl8(Payload[2]), Payload[1]),
                        Or16(Shl8(Payload[4]), Payload[3])>>

\* The saved reset vector of the application, and a word's jump displacement.
AppVec == Or16(Shl8(mem_pack.app_reset_msb), mem_pack.app_reset_lsb)
IsTrampolineFor(word, app_vec) ==
    /\ word \div 4096 = 12
    /\ ((TIMONEL_START \div 2) + (word % 4096)) % 4096 = ((app_vec % 4096) + 1) % 4096

\* C9: the trampoline page written after a commit of the reset page holds the
\* trampoline word in its last word (address TIMONEL_START - 2) and 0xFFFF in
\* every other word.
C9_TrampolinePage ==
    \A i \in OpsOf({"write"}) :
        (cfg.AUTO_PAGE_ADDR /\ obs.ops[i].addr = TIMONEL_START - SPM_PAGESIZE)
            => /\ \A w \in 1..(PageWords - 1) : obs.ops[i].data[w] = ERASED_WORD
               /\ IsTrampolineFor(obs.ops[i].data[PageWords], AppVec)
               /\ spm.flash[PageOf(TIMONEL_START - SPM_PAGESIZE)] = obs.ops[i].data

\* The trampoline page has been written for the application vector the master
\* has sent.
C9_Witness ==
    /\ \E i \in OpsOf({"write"}) : obs.ops[i].addr = TIMONEL_START - SPM_PAGESIZE
    /\ AppVec = Or16(Shl8(Payload[2]), Payload[1])

\* The addresses the erase loop has erased so far.
ErasedSoFar == AddrsOf(obs.ops, "erase")

\* C7: the erase loop erases, once each, the page bases below the bootloader
\* start and nothing at or above it, and it ends, for every bootloader start
\* that is a multiple of the page size.
C7_EraseRange ==
    /\ [](/\ ErasedSoFar =
                [i \in 1..Len(ErasedSoFar) |-> probe.start - i * SPM_PAGESIZE]
          /\ \A i \in DOMAIN ErasedSoFar :
                /\ 0 <= ErasedSoFar[i] /\ ErasedSoFar[i] < probe.start
                /\ ErasedSoFar[i] % SPM_PAGESIZE = 0)
    /\ <>[](/\ probe.page_to_del = RESET_PAGE
            /\ {ErasedSoFar[i] : i \in DOMAIN ErasedSoFar} =
                   {a \in 0..(probe.start - 1) : a % SPM_PAGESIZE = 0}
            /\ Len(ErasedSoFar) = probe.start \div SPM_PAGESIZE)

\* The loop has ended for the bootloader start of this build.
C7_Witness ==
    /\ probe.start = TIMONEL_START /\ probe.page_to_del = RESET_PAGE
    /\ Len(ErasedSoFar) = NumPages - ((FLASH_SIZE - TIMONEL_START) \div SPM_PAGESIZE)

\* C10: the trampoline word has top nibble 0xC, and its 12-bit field k
\* satisfies (TIMONEL_START/2 + k) mod 4096 = ((app_vec & 0x0FFF) + 1) mod 4096.
C10_TrampolineDisplacement ==
    probe.done =>
        LET app_vec == probe.msb * 256 + probe.lsb
            k == probe.tpl % 4096
        IN  /\ probe.tpl \div 4096 = 12
            /\ ((probe.timonel_start \div 2) + k) % 4096
                   = ((app_vec % 4096) + 1) % 4096

\* The word has been computed for a vector whose jump target wraps to 0 and a
\* bootloader start above the 12-bit range.
C10_Witness ==
    /\ probe.done /\ (probe.msb * 256 + probe.lsb) % 4096 = 4095
    /\ probe.timonel_start \div 2 > 4096 /\ probe.tpl % 4096 # 0

\* The trampoline word has been computed for TIMONEL_START = 0x1A00 and
\* app_vec = 0x0000.
TplExampleDone ==
    /\ probe.op = "tpl" /\ probe.done
    /\ probe.timonel_start = 6656 /\ probe.msb = 0 /\ probe.lsb = 0

\* C11 as stated: for TIMONEL_START = 0x1A00 and app_vec = 0x0000 the
\* trampoline word is 0xC0FF.
C11_TrampolineExampleC0FF == TplExampleDone => probe.tpl = 49407

\* C11: for TIMONEL_START = 0x1A00 and app_vec = 0x0000 the trampoline
\* formula, in 16-bit arithmetic, gives 0xC301.
C11_TrampolineExample == TplExampleDone => probe.tpl = 49921

\* The example's inputs have been evaluated; the word is not the stated one.
C11_Witness == TplExampleDone /\ probe.tpl # 49407

\* The n-th byte the handler of this step has put in the TX ring.
QueuedByte(n) == twi'.tx_buffer[And16(twi.tx_head + n, TWI_TX_BUFFER_MASK)]
QueuedCount == (twi'.tx_head - twi.tx_head) % TWI_TX_BUFFER_SIZE

\* C12: a STPGADDR (hi, lo) leaves page_addr at the base of the page that
\* holds address hi * 256 + lo, and queues a reply of two bytes, AKPGADDR
\* and (hi + lo) mod 256.
C12_SetPageAddress ==
    [][(DispatchStep /\ twi'.command[0] = STPGADDR /\ main'.pc = "loop")
       => LET hi == twi'.command[1]
              lo == twi'.command[2]
          IN  /\ mem_pack'.page_addr = ((hi * 256 + lo) \div SPM_PAGESIZE) * SPM_PAGESIZE
              /\ QueuedCount = 2
              /\ QueuedByte(1) = AKPGADDR
              /\ QueuedByte(2) = (hi + lo) % 256
              /\ mem_pack'.page_ix = mem_pack.page_ix
              /\ mem_pack'.flags = mem_pack.flags]_vars

\* A STPGADDR whose address is not a page base and whose byte sum wraps has
\* been handled.
C12_Witness ==
    /\ probe.op = "stpg" /\ probe.hi + probe.lo > 255 /\ probe.lo % SPM_PAGESIZE # 0
    /\ master.phase = "rd" /\ master.got = 0
    /\ mem_pack.page_addr = probe.hi * 256 + probe.lo - (probe.lo % SPM_PAGESIZE)
    /\ twi.tx_buffer[twi.tx_head] = (probe.hi + probe.lo) % 256

\* C13: page_addr is page-aligned in every reachable state, whatever
\* STPGADDR, WRITPAGE and page commits have occurred.
C13_PageAddrAligned == mem_pack.page_addr % SPM_PAGESIZE = 0

\* A STPGADDR with an address inside a page has been handled.
C13_Witness ==
    /\ twi.command[0] = STPGADDR /\ twi.command[2] % SPM_PAGESIZE # 0
    /\ master.phase = "rd"
    /\ mem_pack.page_addr = twi.command[1] * 256 + twi.command[2]
                               - (twi.command[2] % SPM_PAGESIZE)

\* C14: page_ix is in [0, PAGESIZE] in every reachable state, whatever
\* WRITPAGE frames have been sent (before initialization, to a page the loop
\* does not commit, or with a reply that is not ended by NACK).
C14_PageIxInRange == mem_pack.page_ix \in 0..SPM_PAGESIZE

\* C15: the words in the temporary page buffer were all filled for one
\* flash page: between two page writes (or start-up and the first one) every
\* boot_page_fill addresses the same page, and a page is committed from a
\* buffer filled for that page only, also when a STPGADDR arrives while
\* page_ix > 0.
C15_FillsInOnePage ==
    /\ Cardinality(spm.filled) <= 1
    /\ \A i \in OpsOf({"write"}) : obs.ops[i].filled \subseteq {obs.ops[i].addr}

\* This step is the iteration that finds the overflow of another device's
\* address byte; the one after it finds an overflow flag during that
\* device's transaction.
OtherAddressStep == master.phase = "addr_o" /\ master'.phase = "other"
OtherTrafficStep == master.phase = "other"

\* C16: on an address byte that is neither 0x00 nor TWI_ADDR's, the overflow
\* handler re-arms START detection and sends no ACK; from that byte to the
\* next START no overflow is handled, and the RX ring, the TX ring and MemPack
\* stay as they were.
C16_AddressFiltering ==
    [][/\ OtherAddressStep
          => (/\ obs'.ret = "false"
              /\ usi'.start_int /\ ~usi'.ovf_int /\ ~usi'.scl_hold
              /\ ~usi'.sda_out /\ usi'.bits = 8
              /\ twi' = twi /\ mem_pack' = mem_pack)
       /\ OtherTrafficStep
          => (/\ obs'.ret = "none" /\ obs'.ops = <<>>
              /\ usi'.start_int /\ ~usi'.ovf_int /\ ~usi'.sda_out
              /\ twi' = twi /\ mem_pack' = mem_pack)]_vars

\* Another device's transaction of two bytes has gone by while a WRITPAGE
\* frame waited in the RX ring and a page was partly filled.
C16_Witness ==
    /\ master.phase = "other" /\ master.got = 2 /\ master.back = "wr_done"
    /\ twi.rx_byte_count = MST_PACKET_SIZE + 2 /\ mem_pack.page_ix > 0
    /\ usi.ovf_flag /\ ~usi.ovf_int

\* This step is the iteration that finds the master's NACK after the last
\* byte it reads.
NackStep ==
    /\ Running /\ master.phase = "rd" /\ usi.ovf_int
    /\ ~usi.sda_out /\ usi.bits = 1 /\ master.got = master.want
    /\ obs'.ret # "none"

\* The n bytes that follow position tail in the TX ring.
RingFrom(tail, n) ==
    [i \in 1..n |-> twi.tx_buffer[And16(tail + i, TWI_TX_BUFFER_MASK)]]

\* C17: in a read transaction in which the master reads N bytes, giving ACK
\* after each but the last and NACK after the last, and the TX ring holds
\* them, exactly N bytes are taken from the TX ring and transmitted, in ring
\* order, and after the NACK the engine waits for START and address again.
\* (The NACK takes no byte; a restart in the same iteration flushes the ring.)
C17_AckFraming ==
    [][NackStep
       => (/\ Len(master.sent) = master.want
           /\ (twi.tx_tail - master.tail0) % TWI_TX_BUFFER_SIZE = master.want
           /\ master.sent = RingFrom(master.tail0, master.want)
           /\ obs'.ret = "true"
           /\ twi'.tx_tail = twi.tx_tail \/ OpsOfNext({"RestartTimonel"}) # {}
           /\ usi'.start_int /\ ~usi'.ovf_int /\ ~usi'.scl_hold
           /\ ~usi'.sda_out /\ usi'.bits = 8)]_vars

\* A read of the twelve bytes of a GETTMNLV reply has been ended by NACK.
C17_Witness ==
    /\ Len(master.reply) = GETTMNLV_RPLYLN /\ Len(master.sent) = GETTMNLV_RPLYLN
    /\ master.phase = "idle" /\ obs.ret = "true"
    /\ usi.start_int /\ ~usi.ovf_int
    /\ (twi.tx_tail - master.tail0) % TWI_TX_BUFFER_SIZE = GETTMNLV_RPLYLN

\* The acknowledge code that opens the reply to a command.
AckCodeOf(op) ==
    CASE op = GETTMNLV -> ACKTMNLV
      [] op = EXITTMNL -> ACKEXITT
      [] op = DELFLASH -> ACKDELFL
      [] op = STPGADDR -> AKPGADDR
      [] op = WRITPAGE -> ACKWTPAG
      [] OTHER -> 0

\* C18: the bytes transmitted in a read transaction are the first bytes of
\* the reply queued by the command dispatched at that transaction's address
\* byte, beginning with its acknowledge code; no byte of an earlier reply
\* comes before them or among them.
C18_RepliesDoNotInterleave ==
    /\ \A i \in DOMAIN master.sent :
          i <= Len(master.reply) /\ master.sent[i] = master.reply[i]
    /\ (master.phase = "rd" /\ master.sent # <<>>)
          => master.sent[1] = AckCodeOf(master.op)

C20_ExitRunsApplication ==
    [][(NackStep /\ master.op = EXITTMNL /\ master.want = 1 /\ Initialized(Cur))
       => (/\ TestBit(mem_pack.flags, FL_EXIT_TML)
           /\ master.reply = <<ACKEXITT>>
           /\ obs'.ret = "true"
           /\ Len(obs'.ops) = 1 /\ obs'.ops[1].op = "RunApplication"
           /\ ~obs'.ops[1].in_handler
           /\ main'.pc = "app"
           /\ spm' = spm)]_vars

\* The application has been started by an exit requested after GETTMNLV.
C20_Witness ==
    /\ main.pc = "app" /\ obs.ret = "true"
    /\ TestBit(mem_pack.flags, FL_INIT_1) /\ TestBit(mem_pack.flags, FL_EXIT_TML)
    /\ master.sent = <<ACKEXITT>>
    /\ \E i \in DOMAIN obs.ops : obs.ops[i].op = "RunApplication"

\* The reply READFLSH (hi, lo, length) is to queue: ACKRDFSH, the flash bytes
\* from address hi * 256 + lo on, and the checksum of those bytes and of the
\* two address bytes.
FlashAt(a) ==
    LET w == spm.flash[PageOf(a)][WordOf(a)]
    IN  IF a % 2 = 0 THEN w % 256 ELSE w \div 256
ReadDataOf(hi, lo, n) == [i \in 1..n |-> FlashAt((hi * 256 + lo + i - 1) % 65536)]
ReadReplyOf(hi, lo, n) ==
    <<ACKRDFSH>> \o ReadDataOf(hi, lo, n)
                \o <<(SumBytes(ReadDataOf(hi, lo, n)) + hi + lo) % 256>>

\* C21: for every address (hi, lo) and every length 0..255, the READFLSH
\* handler returns having queued exactly length + 2 bytes: ACKRDFSH, the
\* flash bytes from hi * 256 + lo on, and (their sum + hi + lo) mod 256.
C21_ReadFlashReply ==
    [][(DispatchStep /\ cfg.CMD_READFLASH /\ twi'.command[0] = READFLSH)
       => (/\ main'.pc = "loop"
           /\ master'.reply = ReadReplyOf(twi'.command[1], twi'.command[2],
                                          twi'.command[3]))]_vars

\* The same reply, for the lengths an empty TX ring has room for.
ReadFlashReplyThatFits ==
    [][(/\ DispatchStep /\ cfg.CMD_READFLASH /\ twi'.command[0] = READFLSH
        /\ twi'.command[3] + 2 < TWI_TX_BUFFER_SIZE
        /\ twi.tx_head = twi.tx_tail)
       => (/\ main'.pc = "loop"
           /\ master'.reply = ReadReplyOf(twi'.command[1], twi'.command[2],
                                          twi'.command[3]))]_vars

\* C22: with TIMEOUT_EXIT and no master activity from the entry of main on,
\* the loop calls RunApplication after exactly SHORT_LED_DLY * SHORT_EXIT_DLY
\* iterations.
C22_TimeoutExit ==
    (probe.op = "idle" /\ cfg.TIMEOUT_EXIT)
    => (main.pc = "app" <=> probe.n = probe.led0 * probe.exit0)

\* What the two post-decremented counters give: led_delay is tested against 0
\* before it is decremented and is never reloaded, so it expires in iteration
\* led0 + 1 and then once every 65536 iterations; the application runs at
\* the expiry that finds exit_delay at 0, the (exit0 + 1)-th.
TimeoutExitIteration ==
    (probe.op = "idle" /\ cfg.TIMEOUT_EXIT)
    => (main.pc = "app" <=> probe.n = probe.led0 + 1 + 65536 * probe.exit0)

\* C23: once the bootloader is initialized the timeout countdown does not
\* advance and does not start the application: led_delay and exit_delay keep
\* their values (until a restart sets the program up anew), and RunApplication
\* is called only in a slow-op cycle that finds EXIT_TML set.
C23_NoTimeoutOnceInitialized ==
    [][(Initialized(Cur) \/ Initialized(Cur'))
       => (/\ (OpsOfNext({"RestartTimonel"}) = {})
               => (/\ main'.led_delay = main.led_delay
                   /\ main'.exit_delay = main.exit_delay)
           /\ (main'.pc = "app")
               => (SlowOpCycle /\ TestBit(mem_pack.flags, FL_EXIT_TML)))]_vars

\* The application was started by EXITTMNL with the countdown stopped at its
\* last tick: the next iteration of a bootloader not initialized would have
\* started it.
C23_Witness ==
    /\ probe.op = "late" /\ Initialized(Cur) /\ main.pc = "app"
    /\ main.led_delay = 0 /\ main.exit_delay = 0

\* C24: while the bootloader is not initialized no deferred slow op is
\* executed: an EXITTMNL, DELFLASH or WRITPAGE sent before GETTMNLV causes no
\* erase, no write, no restart and no jump other than that of the timeout,
\* until the initialization is complete.
C24_InitializationGating ==
    [][(~Initialized(Cur) /\ ~Initialized(Cur'))
       => (/\ OpsOfNext({"erase", "write", "RestartTimonel"}) = {}
           /\ spm'.flash = spm.flash
           /\ (main'.pc = "app")
               => (cfg.TIMEOUT_EXIT /\ main.led_delay = 0 /\ main.exit_delay = 0))]_vars

\* The overflow handler has returned true with EXIT_TML set, DEL_FLASH set
\* and a full page waiting, and the bootloader is not initialized.
C24_Witness ==
    /\ probe.op = "late" /\ ~Initialized(Cur) /\ main.pc = "loop"
    /\ obs.ret = "true"
    /\ TestBit(mem_pack.flags, FL_EXIT_TML)
    /\ TestBit(mem_pack.flags, FL_DEL_FLASH)
    /\ mem_pack.page_ix = SPM_PAGESIZE

\* op is no case of the switch of ReceiveEvent in this build.
NoCaseFor(op) ==
    /\ op \notin {GETTMNLV, EXITTMNL, DELFLASH, WRITPAGE}
    /\ ~(op = STPGADDR /\ (cfg.CMD_SETPGADDR \/ ~cfg.AUTO_PAGE_ADDR))
    /\ ~(op = READFLSH /\ cfg.CMD_READFLASH)
    /\ ~(op = INITSOFT /\ cfg.TWO_STEP_INIT)

\* This step is the overflow that follows the dispatch of a command: the
\* handler is entered in STATE_SEND_DATA_BYTE for the reply's first byte.
FirstSendStep ==
    /\ Running /\ master.phase = "rd" /\ master.got = 0 /\ usi.ovf_int
    /\ twi.device_state = "STATE_SEND_DATA_BYTE"
    /\ obs'.ret # "none"

\* The dispatch of an opcode without a case queues nothing and leaves MemPack
\* and the flash as they were.
UnknownOpcodeIgnored ==
    [][(DispatchStep /\ NoCaseFor(twi'.command[0]))
       => (/\ twi'.tx_head = twi.tx_head /\ twi'.tx_buffer = twi.tx_buffer
           /\ mem_pack' = mem_pack /\ spm' = spm
           /\ main'.pc = "loop")]_vars

\* C25: for an opcode that is no case of the switch, ReceiveEvent returns
\* without queuing a byte and without changing MemPack; the SEND_DATA_BYTE
\* step that follows finds no reply, and the engine re-arms for START and
\* returns false.
C25_UnknownOpcode ==
    [][/\ (DispatchStep /\ NoCaseFor(twi'.command[0]))
           => (/\ twi'.tx_head = twi.tx_head /\ twi'.tx_buffer = twi.tx_buffer
               /\ mem_pack' = mem_pack)
       /\ (FirstSendStep /\ NoCaseFor(twi.command[0]))
           => (/\ twi'.tx_tail = twi.tx_tail
               /\ usi'.start_int /\ ~usi'.ovf_int
               /\ obs'.ret = "false")]_vars

\* The same, when no byte of an earlier reply is left in the TX ring.
UnknownOpcodeOnEmptyRing ==
    [][(FirstSendStep /\ NoCaseFor(twi.command[0]) /\ twi.tx_head = twi.tx_tail)
       => (/\ twi'.tx_tail = twi.tx_tail
           /\ usi'.start_int /\ ~usi'.ovf_int
           /\ obs'.ret = "false")]_vars

\* This step is the overflow handled in STATE_PUT_BYTE_IN_RX_BUFFER_AND_SEND_ACK:
\* a data byte of the master's frame has been shifted in.
PutByteStep ==
    /\ Running /\ master.phase = "wr" /\ usi.ovf_int
    /\ twi.device_state = "STATE_PUT_BYTE_IN_RX_BUFFER_AND_SEND_ACK"
    /\ obs'.ret # "none"

\* C26: when the RX ring holds TWI_RX_BUFFER_SIZE unread bytes and one more
\* data byte arrives, the byte is dropped: the unread bytes and their count
\* are unchanged; the engine still sends ACK and goes to RECEIVE_DATA_BYTE.
C26_RxOverrunDrops ==
    [][(PutByteStep /\ twi.rx_byte_count = TWI_RX_BUFFER_SIZE)
       => (/\ twi'.rx_buffer = twi.rx_buffer
           /\ twi'.rx_byte_count = twi.rx_byte_count
           /\ twi'.rx_head = twi.rx_head
           /\ twi'.device_state = "STATE_RECEIVE_DATA_BYTE"
           /\ usi'.sda_out /\ usi'.bits = 1)]_vars

\* The engine's part of it: ACK and RECEIVE_DATA_BYTE after every byte.
PutByteAcks ==
    [][PutByteStep
       => (/\ twi'.device_state = "STATE_RECEIVE_DATA_BYTE"
           /\ usi'.sda_out /\ usi'.bits = 1
           /\ twi'.rx_byte_count = (twi.rx_byte_count + 1) % 256
           /\ twi'.rx_buffer[twi'.rx_head] = Head(master.frame))]_vars

\* C27: whatever the number of bytes written since the last dispatch, the
\* dispatch copies at most MST_PACKET_SIZE * 2 of them into command[], and
\* every index it writes is below MST_PACKET_SIZE * 2.
C27_CommandFrameBound ==
    [][DispatchStep
       => (/\ main'.pc # "undefined"
           /\ (twi.rx_byte_count - twi'.rx_byte_count) % 256 <= MST_PACKET_SIZE * 2)]_vars

\* The bound holds for the frames that are no longer than command[].
CommandFrameBoundShort ==
    [][(DispatchStep /\ twi.rx_byte_count <= MST_PACKET_SIZE * 2)
       => (/\ main'.pc # "undefined"
           /\ twi'.rx_byte_count = 0 /\ twi'.rx_head = twi'.rx_tail
           /\ \A i \in 1..twi.rx_byte_count :
                 twi'.command[i - 1] = LongFrame(twi.rx_byte_count)[i])]_vars

\* C30: k bytes put in the RX ring in PUT_BYTE state and then drained by the
\* dispatch are in command[] in their order of arrival when
\* k <= TWI_RX_BUFFER_SIZE, and for any k the drain ends with
\* rx_head == rx_tail and rx_byte_count == 0.
C30_RxRoundTrip ==
    [][(DispatchStep /\ probe.op = "long")
       => (/\ main'.pc # "undefined"
           /\ twi'.rx_head = twi'.rx_tail /\ twi'.rx_byte_count = 0
           /\ (twi.rx_byte_count <= TWI_RX_BUFFER_SIZE)
               => \A i \in 1..twi.rx_byte_count :
                     /\ (i - 1) \in DOMAIN twi'.command
                     /\ twi'.command[i - 1] = LongFrame(twi.rx_byte_count)[i])]_vars

\* C28: every call of UsiOverflowHandler returns, the handler it dispatches
\* and each UsiTwiTransmitByte included: no reply byte is put in a TX ring
\* that has no free place.
C28_NoIrrecoverableState == ~Hung(Cur)

\* What has been taken out of the ring is the start of what was put in, and
\* the ring is empty again exactly when all of it has been taken out.
RingFifo ==
    /\ main.pc = "loop"
    /\ probe.out = SubSeq(probe.s, 1, Len(probe.out))
    /\ (probe.todo = <<>>)
       => ((twi.tx_head = twi.tx_tail) <=> (Len(probe.out) = Len(probe.s)))

CallAddressStep == master.phase = "addr_c" /\ master'.phase # "addr_c"

\* C31: the address byte 0x00 is accepted as the device's own address with
\* the write bit is: the engine sends ACK and moves to RECEIVE_DATA_BYTE, and
\* every other variable is left as TWI_ADDR << 1 would have left it.
C31_GeneralCall ==
    [][CallAddressStep
       => (/\ twi'.device_state = "STATE_RECEIVE_DATA_BYTE"
           /\ usi'.sda_out /\ usi'.bits = 1 /\ usi'.ovf_int
           /\ obs'.ret = "false"
           /\ Cur' = AfterAddressByte(TWI_ADDR * 2))]_vars

\* A frame sent to the general call is in the RX ring, after a command sent
\* to the device's address has been answered.
C31_Witness ==
    /\ master.phase = "wr_done" /\ master.ncmds >= 2
    /\ twi.rx_byte_count = MST_PACKET_SIZE + 2
    /\ twi.tx_head # 0

\* The n bytes of a ring of the stand-alone driver from place tail on.
If3RingFrom(buffer, tail, n, mask) ==
    [i \in 1..n |-> buffer[And16(tail + i - 1, mask)]]

\* As long as no byte is queued on a full ring nor taken from an empty one,
\* the two counts are the numbers of bytes waiting, and the rings hold them.
If3RegularUse ==
    (probe.op = "if3" /\ probe.regular)
    => (/\ probe.d.tx_count = Len(probe.unsent)
        /\ probe.d.rx_count = Len(probe.unread)
        /\ probe.unsent = If3RingFrom(probe.d.tx_buffer, probe.d.tx_tail,
                                      Len(probe.unsent), TWI_TX_BUFFER_MASK)
        /\ probe.unread = If3RingFrom(probe.d.rx_buffer, probe.d.rx_tail,
                                      Len(probe.unread), TWI_RX_BUFFER_MASK))

\* C32: in the stand-alone driver tx_count is the number of bytes queued by
\* UsiTwiTransmitByte and not yet taken by STATE_SEND_DATA, and is within
\* 0..TWI_TX_BUFFER_SIZE: a call of UsiTwiTransmitByte on a full ring changes
\* neither the count nor an unsent byte, and a STATE_SEND_DATA step on an
\* empty ring leaves tx_count at 0.
C32_If3TxCount ==
    [][(probe.op = "if3")
       => (/\ probe'.d.tx_count <= TWI_TX_BUFFER_SIZE
           /\ (probe'.last = "transmit" /\ probe.d.tx_count = TWI_TX_BUFFER_SIZE)
              => (/\ probe'.d.tx_count = probe.d.tx_count
                  /\ probe'.d.tx_buffer = probe.d.tx_buffer)
           /\ (probe'.last = "transmit" /\ probe.d.tx_count < TWI_TX_BUFFER_SIZE)
              => probe'.d.tx_count = probe.d.tx_count + 1
           /\ (probe'.last = "send" /\ probe.d.tx_count = 0)
              => probe'.d.tx_count = 0
           /\ (probe'.last = "send" /\ probe.d.tx_count \in 1..TWI_TX_BUFFER_SIZE)
              => probe'.d.tx_count = probe.d.tx_count - 1)]_vars

\* C33: in the stand-alone driver UsiTwiReceiveByte called with rx_count == 0
\* returns no byte, does not advance rx_tail and leaves rx_count at 0; called
\* on a ring that holds bytes it returns the oldest unread byte and
\* decrements rx_count by one.
C33_If3ReceiveByte ==
    [][(probe.op = "if3" /\ probe'.last = "receive")
       => (/\ (probe.d.rx_count = 0)
              => (/\ probe'.d.rx_count = 0
                  /\ probe'.d.rx_tail = probe.d.rx_tail
                  /\ probe'.d.ret = probe.d.ret)
           /\ (probe.d.rx_count # 0 /\ probe.unread # <<>>)
              => (/\ probe'.d.ret = Head(probe.unread)
                  /\ probe'.d.rx_count = probe.d.rx_count - 1))]_vars

\* This step calls the overflow handler: the master is in a transaction and
\* the overflow interrupt is enabled.
OverflowCall ==
    /\ Running /\ usi.ovf_int /\ master.phase \notin {"idle", "wr_done"}

\* The handler is called in STATE_CHECK_RECEIVED_ACK with the master's NACK
\* (a bit of 1) in the data register.
NackCall ==
    /\ OverflowCall /\ twi.device_state = "STATE_CHECK_RECEIVED_ACK"
    /\ master.phase = "rd" /\ master.got = master.want

\* The USI waits for a START condition and the address that follows it.
WaitsForStart(u) ==
    /\ u.start_int /\ ~u.ovf_int /\ ~u.scl_hold /\ ~u.ovf_flag /\ u.bits = 8

\* C34: UsiOverflowHandler returns true exactly when it is called in
\* STATE_CHECK_RECEIVED_ACK with a nonzero data register (NACK), having set
\* the USI to wait for START and address; every other call that returns,
\* one in STATE_SEND_DATA_BYTE with the TX ring empty included, returns false.
C34_HandlerReturn ==
    [][/\ (obs'.ret = "true") <=> NackCall
       /\ NackCall => WaitsForStart(usi')
       /\ (OverflowCall /\ ~NackCall /\ ~obs'.in_handler) => obs'.ret = "false"
       /\ (/\ OverflowCall /\ twi.device_state = "STATE_SEND_DATA_BYTE"
           /\ twi.tx_head = twi.tx_tail /\ ~obs'.in_handler)
          => (obs'.ret = "false" /\ WaitsForStart(usi'))]_vars

\* The handler has returned true to end a read, and earlier in the behaviour
\* a read found the TX ring empty.
C34_Witness ==
    /\ obs.ret = "true" /\ twi.device_state = "STATE_CHECK_RECEIVED_ACK"
    /\ WaitsForStart(usi) /\ master.ncmds >= 2

\* A call in STATE_SEND_DATA_BYTE that found the TX ring empty has returned.
SendOnEmptyRingReturned ==
    /\ obs.ret = "false" /\ twi.device_state = "STATE_SEND_DATA_BYTE"
    /\ WaitsForStart(usi) /\ master.op \in UnknownOps

\* This step runs the start handler: the master issues START.
StartStep == Running /\ master.phase \in {"idle", "wr_done"}

\* The START of this step is followed by STOP with nothing clocked.
StopAfterStart == master'.phase = master.phase

FillsOfNext == SelectSeq(obs'.ops, LAMBDA o : o.op = "fill")

\* The k-th word of the page payload the master sends, low byte first.
PayloadWord(k) == Payload[2 * k] * 256 + Payload[2 * k - 1]

\* C36: a WRITPAGE advances page_ix (an 8-bit index) by MST_PACKET_SIZE and
\* issues MST_PACKET_SIZE / 2 boot_page_fill calls at the consecutive even
\* addresses from page_addr + page_ix on, the k-th with the word
\* (payload[2k] << 8) | payload[2k - 1]; when the first address is the reset
\* vector, the first word alone is replaced, by the jump to the bootloader.
C36_WritPageFills ==
    [][WritPageHandled
       => LET first == U16(mem_pack.page_addr + mem_pack.page_ix)
          IN  /\ mem_pack'.page_ix = U8(mem_pack.page_ix + MST_PACKET_SIZE)
              /\ mem_pack'.page_addr = mem_pack.page_addr
              /\ first % 2 = 0
              /\ Len(FillsOfNext) = MST_PACKET_SIZE \div 2
              /\ \A k \in 1..Len(FillsOfNext) :
                    /\ FillsOfNext[k].addr = U16(first + 2 * (k - 1))
                    /\ FillsOfNext[k].data =
                           <<IF first = RESET_PAGE /\ k = 1 THEN ResetJumpWord
                             ELSE PayloadWord(k)>>]_vars

\* Two WRITPAGE frames have been handled from the reset page on: the page
\* buffer holds the jump to the bootloader and three words of the host.
C36_Witness ==
    /\ mem_pack.page_addr = RESET_PAGE /\ mem_pack.page_ix = 2 * MST_PACKET_SIZE
    /\ master.op = WRITPAGE /\ master.phase = "rd"
    /\ spm.page_buf = <<ResetJumpWord, PayloadWord(2), PayloadWord(1), PayloadWord(2)>>

\* The page below the bootloader, and its last word as flash holds it.
TplPage == TIMONEL_START - SPM_PAGESIZE
TplPageLastWord(flash) == flash[PageOf(TplPage)][PageWords]

\* This step is the iteration that commits the page at page_addr.
CommitStep ==
    /\ Running
    /\ \E i \in OpsOfNext({"write"}) :
          obs'.ops[i].addr = mem_pack.page_addr /\ ~obs'.ops[i].in_handler
    /\ mem_pack'.page_ix = 0 /\ mem_pack.page_ix # 0

\* C37: in the build with APP_USE_TPL_PG, the iteration that commits the page
\* at TIMONEL_START - SPM_PAGESIZE sets DEL_FLASH if and only if the last word
\* of that page, as flash then holds it, differs from the trampoline word
\* computed from app_reset_msb and app_reset_lsb.
C37_TplPageCheck ==
    [][(cfg.APP_USE_TPL_PG /\ CommitStep /\ mem_pack.page_addr = TplPage)
       => (/\ ~TestBit(mem_pack.flags, FL_DEL_FLASH)
           /\ TestBit(mem_pack'.flags, FL_DEL_FLASH)
              <=> (TplPageLastWord(spm'.flash)
                      # TrampolineWord(TIMONEL_START, mem_pack.app_reset_msb,
                                       mem_pack.app_reset_lsb)))]_vars

\* The master has written the page below the bootloader with the trampoline
\* in its last word, the page has been committed and DEL_FLASH is not set.
C37_Witness ==
    /\ cfg.APP_USE_TPL_PG /\ mem_pack.page_addr = TIMONEL_START
    /\ mem_pack.page_ix = 0 /\ ~TestBit(mem_pack.flags, FL_DEL_FLASH)
    /\ \E i \in OpsOf({"write"}) : obs.ops[i].addr = TplPage
    /\ TplPageLastWord(spm.flash)
          = TrampolineWord(TIMONEL_START, mem_pack.app_reset_msb, mem_pack.app_reset_lsb)

\* The page below the bootloader has been committed with application code in
\* its last word, and DEL_FLASH is set.
TplPageRejected ==
    /\ cfg.APP_USE_TPL_PG /\ mem_pack.page_addr = TIMONEL_START
    /\ TestBit(mem_pack.flags, FL_DEL_FLASH)
    /\ \E i \in OpsOf({"write"}) : obs.ops[i].addr = TplPage

\* The write at place i of the next iteration's calls is the bootloader's
\* trampoline write: every word of the page buffer has just been filled by
\* the main loop, 0xFFFF in all but the last.
BootloaderFilled(i) ==
    /\ i > PageWords
    /\ \A k \in 1..PageWords :
          LET f == obs'.ops[i - PageWords + k - 1]
          IN  /\ f.op = "fill" /\ ~f.in_handler
              /\ f.addr = TplPage + 2 * (k - 1)
              /\ k < PageWords => f.data = <<ERASED_WORD>>
    /\ \A w \in 1..(PageWords - 1) : obs'.ops[i].data[w] = ERASED_WORD

\* C38: in the build with AUTO_PAGE_ADDR and without APP_USE_TPL_PG, a page
\* is committed only at a page_addr below TIMONEL_START - SPM_PAGESIZE, and
\* every boot_page_write to the page at TIMONEL_START - SPM_PAGESIZE is the
\* bootloader's trampoline write.
C38_TplPageIsBootloaders ==
    [][(cfg.AUTO_PAGE_ADDR /\ ~cfg.APP_USE_TPL_PG)
       => (/\ CommitStep => mem_pack.page_addr < TplPage
           /\ \A i \in OpsOfNext({"write"}) :
                 \/ obs'.ops[i].addr = mem_pack.page_addr /\ mem_pack.page_addr < TplPage
                 \/ obs'.ops[i].addr = TplPage /\ BootloaderFilled(i))]_vars

\* The master has named the page below the bootloader, filled it and ended
\* its read with NACK; the initialized bootloader has written nothing.
C38_Witness ==
    /\ cfg.AUTO_PAGE_ADDR /\ ~cfg.APP_USE_TPL_PG /\ Initialized(Cur)
    /\ mem_pack.page_addr = TplPage /\ mem_pack.page_ix = SPM_PAGESIZE
    /\ obs.ret = "true" /\ master.op = 0 /\ FlashCalls = {}
    /\ mem_pack.flags = 2 ^ FL_INIT_1

\* The reset page has been committed and the trampoline page written.
TplPageWrittenByBootloader ==
    /\ cfg.AUTO_PAGE_ADDR /\ ~cfg.APP_USE_TPL_PG
    /\ \E i \in OpsOf({"write"}) : obs.ops[i].addr = TplPage
    /\ mem_pack.page_addr = SPM_PAGESIZE

\* C39: when the device's read address arrives with the RX ring empty
\* (rx_byte_count = 0) no command handler runs: MemPack and the TX ring are
\* as they were and no flash primitive is called; the command of the previous
\* dispatch, still in the command frame, is not executed again.
C39_DispatchOnlyNewBytes ==
    [][(DispatchStep /\ twi.rx_byte_count = 0)
       => (/\ mem_pack' = mem_pack
           /\ twi'.tx_head = twi.tx_head /\ twi'.tx_buffer = twi.tx_buffer
           /\ obs'.ops = <<>>)]_vars

\* A read that follows no write and no earlier command runs no handler: the
\* command frame holds zeros, and 0 is no opcode.
BareReadBeforeAnyCommand ==
    [][(DispatchStep /\ twi.rx_byte_count = 0 /\ twi.command[0] = 0)
       => (/\ mem_pack' = mem_pack /\ twi'.tx_head = twi.tx_head
           /\ twi'.tx_buffer = twi.tx_buffer /\ obs'.ops = <<>>)]_vars

\* A WRITPAGE has been executed a second time by a read that followed no
\* write: page_ix has advanced by the size of two packets after one frame.
WritPageRunTwice ==
    /\ twi.command[0] = WRITPAGE /\ twi.rx_byte_count = 0
    /\ mem_pack.page_ix = 2 * MST_PACKET_SIZE /\ master.ncmds = 2

\* The boot_page_erase calls of the iteration, first to last, and the places
\* of its calls by kind.
ErasesOf(ops) == SelectSeq(ops, LAMBDA o : o.op = "erase")
PlacesOf(ops, kind) == {i \in DOMAIN ops : ops[i].op = kind}

\* C40: the application erase visits the pages in strictly descending order
\* of address, from TIMONEL_START - SPM_PAGESIZE down to the reset page, which
\* is erased last, and the bootloader restarts only after the reset page has
\* been erased.
C40_EraseOrder ==
    (ErasesOf(obs.ops) # <<>> \/ PlacesOf(obs.ops, "RestartTimonel") # {})
    => (/\ ErasesOf(obs.ops) # <<>>
        /\ ErasesOf(obs.ops)[1].addr = TIMONEL_START - SPM_PAGESIZE
        /\ \A k \in 2..Len(ErasesOf(obs.ops)) :
              /\ ErasesOf(obs.ops)[k].addr < ErasesOf(obs.ops)[k - 1].addr
              /\ ErasesOf(obs.ops)[k].addr = ErasesOf(obs.ops)[k - 1].addr - SPM_PAGESIZE
        /\ ErasesOf(obs.ops)[Len(ErasesOf(obs.ops))].addr = RESET_PAGE
        /\ \A r \in PlacesOf(obs.ops, "RestartTimonel") :
              /\ \A e \in PlacesOf(obs.ops, "erase") : e < r
              /\ \E e \in PlacesOf(obs.ops, "erase") : obs.ops[e].addr = RESET_PAGE)

\* The application has been erased, the reset page last, and the bootloader
\* has restarted.
C40_Witness ==
    /\ Len(obs.ops) = (TIMONEL_START \div SPM_PAGESIZE) + 1
    /\ obs.ops[Len(obs.ops)].op = "RestartTimonel"
    /\ obs.ops[Len(obs.ops) - 1].op = "erase"
    /\ obs.ops[Len(obs.ops) - 1].addr = RESET_PAGE
    /\ mem_pack.flags = 0 /\ master.ncmds >= 2

=============================================================================
